---- MODULE Spec2Model ----
(***************************************************************************)
(* StegApp: LSB steganography for images and WAV audio, PDF Subject        *)
(* metadata embedding, and the AES-GCM envelope (services/steganography.ts,*)
(* services/pdfStego.ts, services/encryption.ts).                          *)
(*                                                                         *)
(* Strings are sequences of UTF-16 code units (0..65535); binary strings   *)
(* ('0'/'1' text) are sequences over {0,1}; byte buffers are sequences     *)
(* over 0..255.  JavaScript's 0-based index i is position i+1 here.        *)
(* Loops over a whole buffer are written in closed form (one function      *)
(* constructor per loop) with the loop's index arithmetic kept; folds over *)
(* text split their range in halves.                                       *)
(***************************************************************************)
EXTENDS Integers, Sequences, FiniteSets, TLC

(***************************************************************************)
(* Generic helpers                                                         *)
(***************************************************************************)
Min(a, b) == IF a < b THEN a ELSE b

Repeat(x, n) == [i \in 1..n |-> x]

\* Array.prototype.join('') over a sequence of strings.
RECURSIVE JoinRange(_, _, _)
JoinRange(ss, lo, hi) ==
  IF lo > hi THEN <<>>
  ELSE IF lo = hi THEN ss[lo]
  ELSE LET mid == (lo + hi) \div 2
       IN JoinRange(ss, lo, mid) \o JoinRange(ss, mid + 1, hi)

Join(ss) == JoinRange(ss, 1, Len(ss))

\* String.prototype.startsWith
StartsWith(str, prefix) ==
  /\ Len(str) >= Len(prefix)
  /\ SubSeq(str, 1, Len(prefix)) = prefix

(***************************************************************************)
(* Numbers as text                                                         *)
(***************************************************************************)
\* Values read from 32 carrier bits can reach 2^32 - 1; every length they
\* are compared with is far below Saturate, so values are clipped there.
Saturate == 2 ^ 29

\* Number.prototype.toString(base) for a non-negative integer, as digit values.
RECURSIVE Digits(_, _)
Digits(n, base) ==
  IF n < base THEN <<n>> ELSE Append(Digits(n \div base, base), n % base)

\* n.toString(2): the text of '0'/'1' characters.
ToBinary(n) == Digits(n, 2)

\* String.prototype.padStart(len, '0') on binary text: pads, never truncates.
PadStart(s, len) == IF Len(s) >= len THEN s ELSE Repeat(0, len - Len(s)) \o s

\* parseInt(bits, 2) for non-empty binary text (clipped at Saturate).
RECURSIVE ParseBinary(_)
ParseBinary(bits) ==
  IF Len(bits) = 0 THEN 0
  ELSE LET high == ParseBinary(SubSeq(bits, 1, Len(bits) - 1))
       IN IF 2 * high >= Saturate THEN Saturate ELSE 2 * high + bits[Len(bits)]

\* The value of decimal text (clipped near Saturate).
RECURSIVE ParseDecimal(_)
ParseDecimal(str) ==
  IF Len(str) = 0 THEN 0
  ELSE LET high == ParseDecimal(SubSeq(str, 1, Len(str) - 1))
       IN IF high >= Saturate \div 16 THEN high ELSE 10 * high + (str[Len(str)] - 48)

(***************************************************************************)
(* steganography.ts: text <-> binary text                                  *)
(***************************************************************************)
\* Mutant: characters padded to 8 bits instead of 16.
CharToBinaryByte(c) ==
  LET binary == ToBinary(c)
  IN Repeat(0, 8 - Len(binary)) \o binary

\* char.charCodeAt(0).toString(2) left-padded with '0'.repeat(16 - length)
CharToBinary(c) ==
  LET binary == ToBinary(c)
  IN Repeat(0, 16 - Len(binary)) \o binary

stringToBinary(str) == Join([k \in 1..Len(str) |-> CharToBinary(str[k])])

\* for (i = 0; i < binary.length; i += 16) chars.push(fromCharCode(parseInt(substr(i, 16), 2)))
binaryToString(binary) ==
  [k \in 1..((Len(binary) + 15) \div 16) |->
     ParseBinary(SubSeq(binary, 16 * (k - 1) + 1, Min(16 * k, Len(binary))))]

\* lengthBin + binaryMessage
FrameBits(finalMessage) ==
  LET binaryMessage == stringToBinary(finalMessage)
      lengthBin == PadStart(ToBinary(Len(binaryMessage)), 32)
  IN lengthBin \o binaryMessage

(***************************************************************************)
(* encryption.ts: text <-> bytes (TextEncoder / TextDecoder, UTF-8)        *)
(***************************************************************************)
IsHighSurrogate(c) == c >= 55296 /\ c <= 56319
IsLowSurrogate(c) == c >= 56320 /\ c <= 57343
IsContinuation(b) == b >= 128 /\ b <= 191

Utf8OfCodePoint(cp) ==
  IF cp < 128 THEN <<cp>>
  ELSE IF cp < 2048 THEN <<192 + (cp \div 64), 128 + (cp % 64)>>
  ELSE IF cp < 65536
       THEN <<224 + (cp \div 4096), 128 + ((cp \div 64) % 64), 128 + (cp % 64)>>
  ELSE <<240 + (cp \div 262144), 128 + ((cp \div 4096) % 64),
         128 + ((cp \div 64) % 64), 128 + (cp % 64)>>

\* new TextEncoder().encode(str): a surrogate pair is one code point, a lone
\* surrogate is encoded as U+FFFD.
RECURSIVE TextEncodeFrom(_, _)
TextEncodeFrom(str, i) ==
  IF i > Len(str) THEN <<>>
  ELSE LET c == str[i]
       IN IF IsHighSurrogate(c) /\ i < Len(str) /\ IsLowSurrogate(str[i + 1])
          THEN Utf8OfCodePoint(65536 + (c - 55296) * 1024 + (str[i + 1] - 56320))
                 \o TextEncodeFrom(str, i + 2)
          ELSE IF IsHighSurrogate(c) \/ IsLowSurrogate(c)
          THEN Utf8OfCodePoint(65533) \o TextEncodeFrom(str, i + 1)
          ELSE Utf8OfCodePoint(c) \o TextEncodeFrom(str, i + 1)

TextEncode(str) == TextEncodeFrom(str, 1)

CodeUnitsOf(cp) ==
  IF cp < 65536 THEN <<cp>>
  ELSE <<55296 + ((cp - 65536) \div 1024), 56320 + ((cp - 65536) % 1024)>>

\* UTF-8 decoding without the fatal flag: an ill-formed byte yields U+FFFD.
RECURSIVE TextDecodeFrom(_, _)
TextDecodeFrom(b, i) ==
  IF i > Len(b) THEN <<>>
  ELSE LET c1 == b[i]
           has(n) == i + n <= Len(b) /\ \A k \in 1..n : IsContinuation(b[i + k])
           cp2 == (c1 - 192) * 64 + (b[i + 1] - 128)
           cp3 == (c1 - 224) * 4096 + (b[i + 1] - 128) * 64 + (b[i + 2] - 128)
           cp4 == (c1 - 240) * 262144 + (b[i + 1] - 128) * 4096
                    + (b[i + 2] - 128) * 64 + (b[i + 3] - 128)
       IN IF c1 < 128 THEN <<c1>> \o TextDecodeFrom(b, i + 1)
          ELSE IF c1 >= 194 /\ c1 <= 223 /\ has(1)
          THEN <<cp2>> \o TextDecodeFrom(b, i + 2)
          ELSE IF c1 >= 224 /\ c1 <= 239 /\ has(2) /\ cp3 >= 2048
                  /\ ~IsHighSurrogate(cp3) /\ ~IsLowSurrogate(cp3)
          THEN <<cp3>> \o TextDecodeFrom(b, i + 3)
          ELSE IF c1 >= 240 /\ c1 <= 244 /\ has(3) /\ cp4 >= 65536 /\ cp4 <= 1114111
          THEN CodeUnitsOf(cp4) \o TextDecodeFrom(b, i + 4)
          ELSE <<65533>> \o TextDecodeFrom(b, i + 1)

\* new TextDecoder().decode(bytes): ignoreBOM is false, a leading BOM is dropped.
TextDecode(b) ==
  IF Len(b) >= 3 /\ SubSeq(b, 1, 3) = <<239, 187, 191>>
  THEN TextDecodeFrom(b, 4)
  ELSE TextDecodeFrom(b, 1)

(***************************************************************************)
(* encryption.ts: the platform's random generator, PBKDF2 and AES-GCM      *)
(***************************************************************************)
ITERATIONS == 100000
SALT_LENGTH == 16
IV_LENGTH == 12
\* AES-GCM's default tagLength is 128 bits.
TAG_LENGTH == 16

\* Number of distinct outputs the random generator can give per draw.
NumRandom == 2

\* window.crypto.getRandomValues(new Uint8Array(n))
RandomBytes(n) ==
  { [i \in 1..n |-> (97 * k + i * (35 + 2 * k)) % 256] : k \in 1..NumRandom }

\* The primitives are modelled as a keyed rolling digest over a prime field:
\* deterministic, and sensitive to every byte of every input.
DigestPrime == 2 ^ 22 - 3

RECURSIVE DigestRange(_, _, _, _)
DigestRange(h, bytes, lo, hi) ==
  IF lo > hi THEN h
  ELSE IF lo = hi THEN (h * 257 + bytes[lo] + 1) % DigestPrime
  ELSE LET mid == (lo + hi) \div 2
           left == DigestRange(h, bytes, lo, mid)
       \* the test makes the left half's value known before the right half starts
       IN IF left < 0 THEN left ELSE DigestRange(left, bytes, mid + 1, hi)

Digest(h, bytes) == DigestRange(h, bytes, 1, Len(bytes))

\* importKey("raw", new TextEncoder().encode(password), "PBKDF2", ...)
getPasswordKey(password) == TextEncode(password)

\* Mutant: the key is derived from the salt alone.
deriveKeyFromSaltOnly(passwordKey, salt) ==
  Digest(Digest(ITERATIONS % DigestPrime, <<255>>), salt)

\* deriveKey({PBKDF2, salt, ITERATIONS, SHA-256}, passwordKey, {AES-GCM, 256})
deriveKey(passwordKey, salt) ==
  Digest(Digest(Digest(ITERATIONS % DigestPrime, passwordKey), <<255>>), salt)

KeyStream(aesKey, iv, i) == Digest(Digest(aesKey, iv), <<i % 256, i \div 256>>) % 256

AuthTag(aesKey, iv, ct) ==
  LET h == Digest(Digest(Digest(aesKey, iv), <<255>>), ct)
  IN [j \in 1..TAG_LENGTH |-> (h \div (2 ^ (j - 1))) % 256]

\* crypto.subtle.encrypt({AES-GCM, iv}, aesKey, plaintext): ciphertext ++ tag
AesGcmEncrypt(aesKey, iv, plaintext) ==
  LET ct == [i \in 1..Len(plaintext) |->
               (plaintext[i] + KeyStream(aesKey, iv, i)) % 256]
  IN ct \o AuthTag(aesKey, iv, ct)

\* crypto.subtle.decrypt({AES-GCM, iv}, aesKey, data): rejects with an
\* OperationError when data is shorter than the tag or the tag does not verify.
AesGcmDecrypt(aesKey, iv, data) ==
  IF Len(data) < TAG_LENGTH
  THEN [ok |-> FALSE, name |-> "OperationError", tagChecked |-> FALSE, bytes |-> <<>>]
  ELSE LET ct == SubSeq(data, 1, Len(data) - TAG_LENGTH)
           tag == SubSeq(data, Len(data) - TAG_LENGTH + 1, Len(data))
       IN IF tag # AuthTag(aesKey, iv, ct)
          THEN [ok |-> FALSE, name |-> "OperationError", tagChecked |-> TRUE,
                bytes |-> <<>>]
          ELSE [ok |-> TRUE, name |-> "", tagChecked |-> TRUE,
                bytes |-> [i \in 1..Len(ct) |->
                             (ct[i] + 256 - KeyStream(aesKey, iv, i)) % 256]]

(***************************************************************************)
(* encryption.ts: the envelope text, JSON.stringify({s, iv, d})            *)
(***************************************************************************)
\* Mutant: numbers are written in base 8.
DecimalTextInOctal(n) == [k \in DOMAIN Digits(n, 8) |-> 48 + Digits(n, 8)[k]]

DecimalText(n) == [k \in DOMAIN Digits(n, 10) |-> 48 + Digits(n, 10)[k]]

\* '[' + numbers joined by ',' + ']'
ArrayText(a) ==
  <<91>> \o Join([k \in 1..Len(a) |->
                    IF k = 1 THEN DecimalText(a[k]) ELSE <<44>> \o DecimalText(a[k])])
        \o <<93>>

\* JSON.stringify({ s: [...], iv: [...], d: [...] })
StringifyBundle(s, iv, d) ==
  <<123, 34, 115, 34, 58>> \o ArrayText(s)
    \o <<44, 34, 105, 118, 34, 58>> \o ArrayText(iv)
    \o <<44, 34, 100, 34, 58>> \o ArrayText(d) \o <<125>>

(***************************************************************************)
(* encryption.ts: JSON.parse of the envelope text                          *)
(*                                                                         *)
(* Accepted grammar: whitespace, a top-level value that is an object whose *)
(* member values are arrays of unsigned integers, unsigned integers,       *)
(* strings without escapes or null, or one such value on its own.  Texts   *)
(* using other JSON forms (nested objects, signs, fractions, exponents,    *)
(* escapes, true/false) are outside what this model feeds to the parser.   *)
(***************************************************************************)
IsDigit(c) == c >= 48 /\ c <= 57
IsWhitespace(c) == c \in {32, 9, 10, 13}
NullText == <<110, 117, 108, 108>>

\* A parsed JSON value: t is its type, n / s / a its number, string or array.
JsValue(t, n, s, a) == [t |-> t, n |-> n, s |-> s, a |-> a]
JsUndefined == JsValue("undefined", 0, <<>>, <<>>)

ParserStart ==
  [st |-> "value", where |-> "top", isObj |-> FALSE, top |-> JsUndefined,
   keys |-> <<>>, vals |-> <<>>, arr |-> <<>>, key |-> <<>>, str |-> <<>>,
   num |-> 0, zero |-> FALSE, inArr |-> FALSE, lit |-> 0]

ParserFail(p) == [p EXCEPT !.st = "fail"]

\* A value is complete: it is the top-level value or the value of member p.key.
CompleteValue(p, v) ==
  IF p.where = "top"
  THEN [p EXCEPT !.st = "end", !.top = v, !.inArr = FALSE]
  ELSE [p EXCEPT !.st = "memberAfter", !.inArr = FALSE,
                 !.keys = Append(p.keys, p.key), !.vals = Append(p.vals, v)]

FinishNumber(p) ==
  IF p.inArr
  THEN [p EXCEPT !.st = "elemAfter", !.arr = Append(p.arr, p.num)]
  ELSE CompleteValue(p, JsValue("number", p.num, <<>>, <<>>))

StartNumber(p, c) == [p EXCEPT !.st = "num", !.num = c - 48, !.zero = (c = 48)]

ParserStepBase(p, c) ==
  CASE p.st = "value" ->
         IF IsWhitespace(c) THEN p
         ELSE IF c = 123 /\ p.where = "top"
              THEN [p EXCEPT !.st = "key0", !.isObj = TRUE]
         ELSE IF c = 91 THEN [p EXCEPT !.st = "elem0", !.inArr = TRUE, !.arr = <<>>]
         ELSE IF c = 34 THEN [p EXCEPT !.st = "str", !.str = <<>>]
         ELSE IF IsDigit(c) THEN StartNumber(p, c)
         ELSE IF c = NullText[1] THEN [p EXCEPT !.st = "lit", !.lit = 1]
         ELSE ParserFail(p)
    [] p.st = "num" ->
         \* a leading zero is not followed by further digits
         IF p.zero THEN ParserFail(p)
         ELSE IF p.num >= Saturate \div 16 THEN p
         ELSE [p EXCEPT !.num = 10 * p.num + (c - 48)]
    [] p.st = "str" ->
         IF c = 34 THEN CompleteValue(p, JsValue("string", 0, p.str, <<>>))
         ELSE IF c = 92 \/ c < 32 THEN ParserFail(p)
         ELSE [p EXCEPT !.str = Append(p.str, c)]
    [] p.st = "lit" ->
         IF c # NullText[p.lit + 1] THEN ParserFail(p)
         ELSE IF p.lit + 1 = Len(NullText)
              THEN CompleteValue(p, JsValue("null", 0, <<>>, <<>>))
         ELSE [p EXCEPT !.lit = p.lit + 1]
    [] p.st \in {"elem0", "elem1"} ->
         IF IsWhitespace(c) THEN p
         ELSE IF c = 93 /\ p.st = "elem0"
              THEN CompleteValue(p, JsValue("array", 0, <<>>, p.arr))
         ELSE IF IsDigit(c) THEN StartNumber(p, c)
         ELSE ParserFail(p)
    [] p.st = "elemAfter" ->
         IF IsWhitespace(c) THEN p
         ELSE IF c = 44 THEN [p EXCEPT !.st = "elem1"]
         ELSE IF c = 93 THEN CompleteValue(p, JsValue("array", 0, <<>>, p.arr))
         ELSE ParserFail(p)
    [] p.st \in {"key0", "key1"} ->
         IF IsWhitespace(c) THEN p
         ELSE IF c = 34 THEN [p EXCEPT !.st = "inkey", !.key = <<>>]
         ELSE IF c = 125 /\ p.st = "key0" THEN [p EXCEPT !.st = "end"]
         ELSE ParserFail(p)
    [] p.st = "inkey" ->
         IF c = 34 THEN [p EXCEPT !.st = "colon"]
         ELSE IF c = 92 \/ c < 32 THEN ParserFail(p)
         ELSE [p EXCEPT !.key = Append(p.key, c)]
    [] p.st = "colon" ->
         IF IsWhitespace(c) THEN p
         ELSE IF c = 58 THEN [p EXCEPT !.st = "value", !.where = "member"]
         ELSE ParserFail(p)
    [] p.st = "memberAfter" ->
         IF IsWhitespace(c) THEN p
         ELSE IF c = 44 THEN [p EXCEPT !.st = "key1"]
         ELSE IF c = 125 THEN [p EXCEPT !.st = "end"]
         ELSE ParserFail(p)
    [] p.st = "end" -> IF IsWhitespace(c) THEN p ELSE ParserFail(p)
    [] OTHER -> ParserFail(p)

\* One character: a number ends at the first character that is not a digit,
\* and that character is then read in the state after the number.
ParserStep(p, c) ==
  IF p.st = "num" /\ ~IsDigit(c) THEN ParserStepBase(FinishNumber(p), c)
  ELSE ParserStepBase(p, c)

RECURSIVE ParserRun(_, _, _, _)
ParserRun(p, text, lo, hi) ==
  IF lo > hi THEN p
  ELSE IF lo = hi THEN ParserStep(p, text[lo])
  ELSE LET mid == (lo + hi) \div 2
           left == ParserRun(p, text, lo, mid)
       IN IF left.st = "fail" THEN left ELSE ParserRun(left, text, mid + 1, hi)

\* JSON.parse(text): ok is FALSE where it throws a SyntaxError.
JSONparse(text) ==
  LET run == ParserRun(ParserStart, text, 1, Len(text))
      last == IF run.st = "num" THEN FinishNumber(run) ELSE run
  IN [ok |-> last.st = "end", isObj |-> last.isObj, top |-> last.top,
      keys |-> last.keys, vals |-> last.vals]

\* bundle.<name> on the parsed value; a later duplicate key wins.
Property(bundle, name) ==
  LET hits == {k \in 1..Len(bundle.keys) : bundle.keys[k] = name}
  IN IF ~bundle.isObj \/ hits = {} THEN JsUndefined
     ELSE bundle.vals[CHOOSE k \in hits : \A j \in hits : j <= k]

\* !v is true
Falsy(v) ==
  \/ v.t \in {"undefined", "null"}
  \/ v.t = "number" /\ v.n = 0
  \/ v.t = "string" /\ v.s = <<>>

\* Number(str) as an array length: decimal digits give their value, any other
\* text NaN, which ToIndex turns into 0.
StringToIndex(str) ==
  IF str # <<>> /\ \A k \in 1..Len(str) : IsDigit(str[k])
  THEN ParseDecimal(str) ELSE 0

\* new Uint8Array(v): an array gives its elements modulo 256, a number or a
\* string that many zero bytes.
Uint8ArrayOf(v) ==
  CASE v.t = "array" -> [k \in 1..Len(v.a) |-> v.a[k] % 256]
    [] v.t = "number" -> Repeat(0, v.n)
    [] v.t = "string" -> Repeat(0, StringToIndex(v.s))
    [] OTHER -> <<>>

(***************************************************************************)
(* encryption.ts: encryptMessage / decryptMessage                          *)
(***************************************************************************)
\* encryptMessage(message, password) with the salt and iv the generator gave.
encryptMessage(message, password, salt, iv) ==
  LET passwordKey == getPasswordKey(password)
      aesKey == deriveKey(passwordKey, salt)
      encodedMessage == TextEncode(message)
      encryptedContent == AesGcmEncrypt(aesKey, iv, encodedMessage)
  IN StringifyBundle(salt, iv, encryptedContent)

\* The error the outer catch block of decryptMessage rethrows for a caught
\* error with the given name.
Rethrow(name, derived, tagChecked) ==
  [ok |-> FALSE,
   err |-> IF name = "OperationError" THEN "Integrity" ELSE "DecryptionFailed",
   text |-> <<>>, derived |-> derived, tagChecked |-> tagChecked]

\* decryptMessage(encryptedJson, password).  derived: key derivation was
\* reached; tagChecked: AES-GCM compared an authentication tag.
decryptMessage(encryptedJson, password) ==
  LET bundle == JSONparse(encryptedJson)
      s == Property(bundle, <<115>>)
      iv == Property(bundle, <<105, 118>>)
      d == Property(bundle, <<100>>)
  IN IF ~bundle.ok THEN Rethrow("Error", FALSE, FALSE)
     \* reading a property of null throws a TypeError
     ELSE IF ~bundle.isObj /\ bundle.top.t = "null"
     THEN Rethrow("TypeError", FALSE, FALSE)
     ELSE IF Falsy(s) \/ Falsy(iv) \/ Falsy(d) THEN Rethrow("Error", FALSE, FALSE)
     ELSE LET salt == Uint8ArrayOf(s)
              nonce == Uint8ArrayOf(iv)
              data == Uint8ArrayOf(d)
              passwordKey == getPasswordKey(password)
              aesKey == deriveKey(passwordKey, salt)
              decryptedContent == AesGcmDecrypt(aesKey, nonce, data)
          IN IF ~decryptedContent.ok
             THEN Rethrow(decryptedContent.name, TRUE, decryptedContent.tagChecked)
             ELSE [ok |-> TRUE, err |-> "", text |-> TextDecode(decryptedContent.bytes),
                   derived |-> TRUE, tagChecked |-> TRUE]

(***************************************************************************)
(* pdfStego.ts: btoa / atob                                                *)
(***************************************************************************)
\* The base64 alphabet: A-Z, a-z, 0-9, '+', '/'.
B64Char(v) ==
  IF v < 26 THEN 65 + v
  ELSE IF v < 52 THEN 97 + (v - 26)
  ELSE IF v < 62 THEN 48 + (v - 52)
  ELSE IF v = 62 THEN 43 ELSE 47

B64Value(c) ==
  IF c >= 65 /\ c <= 90 THEN c - 65
  ELSE IF c >= 97 /\ c <= 122 THEN c - 97 + 26
  ELSE IF IsDigit(c) THEN c - 48 + 52
  ELSE IF c = 43 THEN 62
  ELSE IF c = 47 THEN 63 ELSE -1

ByteAt(str, k) == IF k <= Len(str) THEN str[k] ELSE 0

\* btoa(str): throws InvalidCharacterError when a code unit is above 255.
btoa(str) ==
  IF \E k \in 1..Len(str) : str[k] > 255
  THEN [ok |-> FALSE, text |-> <<>>]
  ELSE [ok |-> TRUE,
        text |-> [q \in 1..(4 * ((Len(str) + 2) \div 3)) |->
          LET g == (q - 1) \div 4
              j == (q - 1) % 4
              group == ByteAt(str, 3 * g + 1) * 65536 + ByteAt(str, 3 * g + 2) * 256
                         + ByteAt(str, 3 * g + 3)
          IN IF 3 * g + j > Len(str) THEN 61
             ELSE B64Char((group \div (64 ^ (3 - j))) % 64)]]

\* atob(data), the forgiving-base64 decode: whitespace is removed, padding of
\* a length that is a multiple of 4 is removed, and it throws when the rest
\* has length 1 modulo 4 or a character outside the alphabet.
atob(data) ==
  LET IsData(c) == c \notin {9, 10, 12, 13, 32}
      stripped == SelectSeq(data, IsData)
      n == Len(stripped)
      unpadded ==
        IF n > 0 /\ n % 4 = 0 /\ stripped[n] = 61
        THEN IF stripped[n - 1] = 61 THEN SubSeq(stripped, 1, n - 2)
             ELSE SubSeq(stripped, 1, n - 1)
        ELSE stripped
      m == Len(unpadded)
      Sextet(k) == IF k <= m THEN B64Value(unpadded[k]) ELSE 0
  IN IF m % 4 = 1 \/ \E k \in 1..m : B64Value(unpadded[k]) < 0
     THEN [ok |-> FALSE, text |-> <<>>]
     ELSE [ok |-> TRUE,
           text |-> [k \in 1..((6 * m) \div 8) |->
             LET g == (k - 1) \div 3
                 r == (k - 1) % 3
                 group == Sextet(4 * g + 1) * 262144 + Sextet(4 * g + 2) * 4096
                            + Sextet(4 * g + 3) * 64 + Sextet(4 * g + 4)
             IN (group \div (256 ^ (2 - r))) % 256]]

(***************************************************************************)
(* JavaScript truthiness of the optional password argument.  An optional   *)
(* string is <<>> when it is undefined and <<text>> otherwise.             *)
(***************************************************************************)
Undefined == <<>>
Given(text) == <<text>>
\* Mutant: only a missing password counts as none.
TruthyIfDefined(opt) == opt # Undefined

Truthy(opt) == opt # Undefined /\ opt[1] # <<>>

(***************************************************************************)
(* pdfStego.ts: the Subject metadata field of the loaded document          *)
(***************************************************************************)
\* "STEGAPP_HIDDEN:"
Flag == <<83, 84, 69, 71, 65, 80, 80, 95, 72, 73, 68, 68, 69, 78, 58>>

\* encodePdf: subject is the document's Subject (an optional string).
encodePdf(subject, message, password, salt, iv) ==
  LET finalMessage ==
        IF Truthy(password) THEN btoa(encryptMessage(message, password[1], salt, iv))
        ELSE btoa(message)
  IN IF ~finalMessage.ok
     THEN [ok |-> FALSE, err |-> "InvalidCharacterError", out |-> subject]
     ELSE [ok |-> TRUE, err |-> "", out |-> Given(Flag \o finalMessage.text)]

\* Mutant: the marker prefix is not looked for.
decodePdfWithoutMarkerCheck(subject, password) ==
  IF ~Truthy(subject)
  THEN [ok |-> FALSE, err |-> "NoHiddenData", text |-> <<>>,
        derived |-> FALSE, tagChecked |-> FALSE]
  ELSE LET rawData == SubSeq(subject[1], Len(Flag) + 1, Len(subject[1]))
           decoded == atob(rawData)
       IN IF ~decoded.ok
          THEN [ok |-> FALSE, err |-> "MalformedEncoding", text |-> <<>>,
                derived |-> FALSE, tagChecked |-> FALSE]
          ELSE IF Truthy(password) THEN decryptMessage(decoded.text, password[1])
          ELSE [ok |-> TRUE, err |-> "", text |-> decoded.text,
                derived |-> FALSE, tagChecked |-> FALSE]

\* decodePdf
decodePdf(subject, password) ==
  IF ~Truthy(subject) \/ ~StartsWith(subject[1], Flag)
  THEN [ok |-> FALSE, err |-> "NoHiddenData", text |-> <<>>,
        derived |-> FALSE, tagChecked |-> FALSE]
  ELSE LET rawData == SubSeq(subject[1], Len(Flag) + 1, Len(subject[1]))
           decoded == atob(rawData)
       IN IF ~decoded.ok
          THEN [ok |-> FALSE, err |-> "MalformedEncoding", text |-> <<>>,
                derived |-> FALSE, tagChecked |-> FALSE]
          ELSE IF Truthy(password) THEN decryptMessage(decoded.text, password[1])
          ELSE [ok |-> TRUE, err |-> "", text |-> decoded.text,
                derived |-> FALSE, tagChecked |-> FALSE]

\* corruptPdf: rawData.length > 10
MinCorruptiblePdf == 10

\* Mutant: the replacement character is always 'A'.
corruptPdfAlwaysA(subject) ==
  IF Truthy(subject) /\ StartsWith(subject[1], Flag)
  THEN LET rawData == SubSeq(subject[1], Len(Flag) + 1, Len(subject[1]))
           idx == Len(rawData) \div 2
       IN IF Len(rawData) > MinCorruptiblePdf
          THEN Given(Flag \o SubSeq(rawData, 1, idx) \o <<65>>
                       \o SubSeq(rawData, idx + 2, Len(rawData)))
          ELSE subject
  ELSE subject

corruptPdf(subject) ==
  IF Truthy(subject) /\ StartsWith(subject[1], Flag)
  THEN LET rawData == SubSeq(subject[1], Len(Flag) + 1, Len(subject[1]))
           idx == Len(rawData) \div 2
           newChar == IF rawData[idx + 1] = 65 THEN 66 ELSE 65
       IN IF Len(rawData) > MinCorruptiblePdf
          THEN Given(Flag \o SubSeq(rawData, 1, idx) \o <<newChar>>
                       \o SubSeq(rawData, idx + 2, Len(rawData)))
          ELSE subject
  ELSE subject

(***************************************************************************)
(* steganography.ts: image LSB.  data is imageData.data, the RGBA bytes.   *)
(***************************************************************************)
\* (dataIndex + 1) % 4 === 0: the alpha byte of a pixel (0-based index).
IsAlpha(dataIndex) == (dataIndex + 1) % 4 = 0

\* The loops advance dataIndex over every byte and the bit index only over
\* the bytes that are not alpha: when a loop is at a non-alpha dataIndex its
\* bit index is the number of non-alpha bytes before it.
SlotOf(dataIndex) == dataIndex - (dataIndex \div 4)

\* The 0-based dataIndex of the k-th (0-based) non-alpha byte.
IndexOfSlot(k) == k + (k \div 3)

\* Number of non-alpha bytes among the first n bytes.
SlotCount(n) == n - (n \div 4)

\* Mutant: the bit is or-ed in without clearing the old one.
SetLsbWithoutClear(byte, bit) == IF byte % 2 = 1 THEN byte ELSE byte + bit

\* (byte & ~1) | bit
SetLsb(byte, bit) == (byte - (byte % 2)) + bit

\* byte ^ 1
FlipLsb(byte) == IF byte % 2 = 0 THEN byte + 1 ELSE byte - 1

\* The finalMessage of an encode call: encrypted when the password is truthy.
FinalMessage(message, password, salt, iv) ==
  IF Truthy(password) THEN encryptMessage(message, password[1], salt, iv)
  ELSE message

\* Mutant: a frame that fills the image exactly is refused.
ImageCapacityExceededAtLimit(fullBinary, data) == 4 * Len(fullBinary) >= Len(data) * 3

\* fullBinary.length > data.length * 3 / 4, both sides multiplied by 4
ImageCapacityExceeded(fullBinary, data) == 4 * Len(fullBinary) > Len(data) * 3

\* encodeImage.  data: the pixel buffer when the call ends; text: finalMessage;
\* bits: fullBinary.
encodeImage(data, message, password, salt, iv) ==
  LET finalMessage == FinalMessage(message, password, salt, iv)
      fullBinary == FrameBits(finalMessage)
  IN IF ImageCapacityExceeded(fullBinary, data)
     THEN [ok |-> FALSE, err |-> "CapacityExceeded", data |-> data,
           text |-> finalMessage, bits |-> fullBinary]
     ELSE [ok |-> TRUE, err |-> "", text |-> finalMessage, bits |-> fullBinary,
           \* while (binIndex < fullBinary.length && dataIndex < data.length)
           data |-> [i \in 1..Len(data) |->
                      IF ~IsAlpha(i - 1) /\ SlotOf(i - 1) < Len(fullBinary)
                      THEN SetLsb(data[i], fullBinary[SlotOf(i - 1) + 1])
                      ELSE data[i]]]

\* The optional decryption that ends every decode.
Decoded(decoded, password) ==
  IF Truthy(password) THEN decryptMessage(decoded, password[1])
  ELSE [ok |-> TRUE, err |-> "", text |-> decoded, derived |-> FALSE,
        tagChecked |-> FALSE]

Failure(err) ==
  [ok |-> FALSE, err |-> err, text |-> <<>>, derived |-> FALSE, tagChecked |-> FALSE]

\* decodeImage.  read: the number of bits of the message that were read.
decodeImageBits(data) ==
  LET slots == SlotCount(Len(data))
      \* while (lengthBin.length < 32 && dataIndex < data.length)
      headerLen == Min(32, slots)
      lengthBin == [k \in 1..headerLen |-> data[IndexOfSlot(k - 1) + 1] % 2]
      msgLength == ParseBinary(lengthBin)
      \* while (binary.length < msgLength && dataIndex < data.length)
      bodyLen == Min(msgLength, slots - headerLen)
  IN [msgLength |-> msgLength,
      valid |-> ~(msgLength <= 0 \/ msgLength > Len(data) * 8),
      binary |-> [k \in 1..bodyLen |-> data[IndexOfSlot(headerLen + k - 1) + 1] % 2]]

decodeImage(data, password) ==
  LET r == decodeImageBits(data)
  IN IF ~r.valid THEN Failure("NoHeaderFound")
     ELSE Decoded(binaryToString(r.binary), password)

\* corruptImage: if (validBytesFound > 42) flips the byte and stops.
ImageCushion == 42

corruptImage(data) ==
  LET target == IndexOfSlot(ImageCushion + 1)
  IN IF target < Len(data) THEN [data EXCEPT ![target + 1] = FlipLsb(data[target + 1])]
     ELSE data

(***************************************************************************)
(* steganography.ts: WAV audio LSB.  file is the whole byte stream.        *)
(***************************************************************************)
\* "data"
DataId == <<100, 97, 116, 97>>

\* dataView.getUint32(offset, true), clipped at Saturate
Uint32LE(file, offset) ==
  IF file[offset + 4] >= 32 THEN Saturate
  ELSE file[offset + 1] + 256 * file[offset + 2] + 65536 * file[offset + 3]
         + 16777216 * file[offset + 4]

\* The chunk walk shared by encodeAudio, decodeAudio and corruptAudio, from
\* the given offset.  found: a data chunk was located and its Uint8Array view
\* created, at start (0-based) with size bytes; otherwise err names the
\* error thrown: a RangeError of DataView / Uint8Array, or the end of the loop.
RECURSIVE FindDataChunk(_, _)
FindDataChunk(file, offset) ==
  IF ~(offset < Len(file))
  THEN [found |-> FALSE, err |-> "InvalidWav", start |-> 0, size |-> 0]
  ELSE IF offset + 8 > Len(file)
  THEN [found |-> FALSE, err |-> "RangeError", start |-> 0, size |-> 0]
  ELSE LET chunkId == SubSeq(file, offset + 1, offset + 4)
           chunkSize == Uint32LE(file, offset + 4)
       IN IF chunkId = DataId
          THEN IF offset + 8 + chunkSize > Len(file)
               THEN [found |-> FALSE, err |-> "RangeError", start |-> 0, size |-> 0]
               ELSE [found |-> TRUE, err |-> "", start |-> offset + 8, size |-> chunkSize]
          ELSE FindDataChunk(file, offset + 8 + chunkSize)

\* let offset = 12; // Skip RIFF header
RiffHeaderLength == 12

\* encodeAudio.  data: the array buffer when the call ends.
encodeAudio(file, message, password, salt, iv) ==
  LET chunk == FindDataChunk(file, RiffHeaderLength)
      finalMessage == FinalMessage(message, password, salt, iv)
      fullBinary == FrameBits(finalMessage)
  IN IF ~chunk.found
     THEN [ok |-> FALSE, err |-> chunk.err, data |-> file, text |-> <<>>, bits |-> <<>>]
     ELSE IF Len(fullBinary) > chunk.size
     THEN [ok |-> FALSE, err |-> "CapacityExceeded", data |-> file,
           text |-> finalMessage, bits |-> fullBinary]
     ELSE [ok |-> TRUE, err |-> "", text |-> finalMessage, bits |-> fullBinary,
           \* for (i = 0; i < fullBinary.length; i++) samples[i] = ...
           data |-> [p \in 1..Len(file) |->
                      IF p > chunk.start /\ p - chunk.start <= Len(fullBinary)
                      THEN SetLsb(file[p], fullBinary[p - chunk.start])
                      ELSE file[p]]]

\* samples[i] & 1: an index outside the view reads undefined, and undefined & 1 is 0.
SampleBit(file, chunk, i) ==
  IF i < chunk.size THEN file[chunk.start + i + 1] % 2 ELSE 0

decodeAudioBits(file, chunk) ==
  LET lengthBin == [k \in 1..32 |-> SampleBit(file, chunk, k - 1)]
      msgLength == ParseBinary(lengthBin)
  IN [msgLength |-> msgLength,
      valid |-> ~(msgLength <= 0 \/ msgLength > chunk.size),
      \* for (i = 32; i < 32 + msgLength; i++)
      binary |-> IF msgLength <= 0 \/ msgLength > chunk.size THEN <<>>
                 ELSE [k \in 1..msgLength |-> SampleBit(file, chunk, 32 + k - 1)]]

decodeAudio(file, password) ==
  LET chunk == FindDataChunk(file, RiffHeaderLength)
      r == decodeAudioBits(file, chunk)
  IN IF ~chunk.found THEN Failure(chunk.err)
     ELSE IF ~r.valid THEN Failure("NoHeaderFound")
     ELSE Decoded(binaryToString(r.binary), password)

\* corruptAudio: if (samples.length > 50) samples[40] ^= 1
AudioMinLength == 50
AudioFlipIndex == 40

\* Mutant: the flipped index is counted from the start of the stream.
corruptAudioAtStreamOffset(file) ==
  LET chunk == FindDataChunk(file, RiffHeaderLength)
  IN IF ~chunk.found THEN [ok |-> FALSE, err |-> chunk.err, data |-> file]
     ELSE IF chunk.size > AudioMinLength
     THEN [ok |-> TRUE, err |-> "",
           data |-> [file EXCEPT ![AudioFlipIndex + 1] = FlipLsb(file[AudioFlipIndex + 1])]]
     ELSE [ok |-> TRUE, err |-> "", data |-> file]

corruptAudio(file) ==
  LET chunk == FindDataChunk(file, RiffHeaderLength)
  IN IF ~chunk.found THEN [ok |-> FALSE, err |-> chunk.err, data |-> file]
     ELSE IF chunk.size > AudioMinLength
     THEN [ok |-> TRUE, err |-> "",
           data |-> [file EXCEPT ![chunk.start + AudioFlipIndex + 1] =
                                    FlipLsb(file[chunk.start + AudioFlipIndex + 1])]]
     ELSE [ok |-> TRUE, err |-> "", data |-> file]

(***************************************************************************)
(* Inputs                                                                  *)
(***************************************************************************)
\* Longest message, in code units.
MaxMsgLen == 5
\* Pixels of the large image and samples of the large data chunk: room for
\* the frame of an encrypted envelope.
BigPixels == 1100
BigSamples == 3300

\* "", "A", "AB", "hello", U+00E9, U+0100, a surrogate pair (U+1F600), a lone
\* high surrogate, a BOM followed by "A", and U+FFFF followed by U+0000.
Messages ==
  {m \in {<<>>, <<65>>, <<65, 66>>, <<104, 101, 108, 108, 111>>, <<233>>, <<256>>,
          <<55357, 56832>>, <<55296>>, <<65279, 65>>, <<65535, 0>>} :
     Len(m) <= MaxMsgLen}

\* A message that is itself the text of a {s, iv, d} record:
\* {"s":1,"iv":1,"d":1}
EnvelopeShapedMessage ==
  <<123, 34, 115, 34, 58, 49, 44, 34, 105, 118, 34, 58, 49, 44, 34, 100, 34, 58, 49, 125>>

\* The messages given to encryptMessage when it is called on its own.
EnvelopeMessages == {m \in Messages : Len(m) <= 1}

\* undefined, "", "pw"
Passwords == {Undefined, Given(<<>>), Given(<<112, 119>>)}
\* the passwords of encode, and "qx"
DecodePasswords == Passwords \cup {Given(<<113, 120>>)}

\* Bit k (0-based) of a carrier's least-significant bits: the 32-bit text of
\* header (all ones when header is -1), then a fixed pattern.
CarrierBit(header, k) ==
  IF header < 0 THEN 1
  ELSE IF k < 32 THEN PadStart(ToBinary(header), 32)[k + 1]
  ELSE IF k % 3 = 0 THEN 1 ELSE 0

\* The RGBA bytes of an image of the given number of pixels.
Image(pixels, header) ==
  [i \in 1..(4 * pixels) |->
     IF IsAlpha(i - 1) THEN 255
     ELSE 2 * ((7 * i) % 100) + CarrierBit(header, SlotOf(i - 1))]

Images ==
  {Image(px, 0) : px \in {15, 16, 21, 22, 38}}
    \cup {Image(16, h) : h \in {16, 100, 513, -1}}
BigImage == Image(BigPixels, 0)

\* "RIFF" <size> "WAVE", then a "fmt " chunk of 16 bytes.
RiffHeader == <<82, 73, 70, 70, 0, 0, 0, 0, 87, 65, 86, 69>>
FmtChunk == <<102, 109, 116, 32, 16, 0, 0, 0,
              1, 0, 1, 0, 68, 172, 0, 0, 68, 172, 0, 0, 1, 0, 8, 0>>
ChunkHeader(id, size) ==
  id \o <<size % 256, (size \div 256) % 256, (size \div 65536) % 256, size \div 16777216>>

\* A WAV stream whose data chunk holds the given number of samples, after
\* the fmt chunk and before a trailing "LIST" chunk of 2 bytes.
Wav(samples, header) ==
  RiffHeader \o FmtChunk \o ChunkHeader(DataId, samples)
    \o [i \in 1..samples |-> 2 * ((5 * i) % 120) + CarrierBit(header, i - 1)]
    \o ChunkHeader(<<76, 73, 83, 84>>, 2) \o <<7, 9>>

\* A WAV stream whose data chunk comes after a "LIST" chunk and before the
\* fmt chunk.
WavReordered(samples, header) ==
  RiffHeader \o ChunkHeader(<<76, 73, 83, 84>>, 2) \o <<7, 9>>
    \o ChunkHeader(DataId, samples)
    \o [i \in 1..samples |-> 2 * ((5 * i) % 120) + CarrierBit(header, i - 1)]
    \o FmtChunk

\* Byte streams without a data chunk: nothing after the fmt chunk, the outer
\* header alone, fewer than 12 bytes, a stream that ends inside a chunk id,
\* one that ends inside a chunk length, and a fmt chunk whose declared
\* length runs past the end.
NoDataWavs ==
  {RiffHeader \o FmtChunk,
   RiffHeader,
   SubSeq(RiffHeader, 1, 8),
   RiffHeader \o FmtChunk \o <<76, 73, 83>>,
   RiffHeader \o FmtChunk \o <<76, 73, 83, 84, 2, 0>>,
   RiffHeader \o ChunkHeader(<<102, 109, 116, 32>>, 100) \o <<1, 0, 1, 0, 68, 172>>}

\* A stream whose data chunk declares more bytes than the stream holds.
TruncatedWav ==
  RiffHeader \o FmtChunk \o ChunkHeader(DataId, 200)
    \o [i \in 1..48 |-> 2 * ((5 * i) % 120)]

Wavs ==
  {Wav(n, 0) : n \in {47, 48, 63, 64, 112}}
    \cup {Wav(48, h) : h \in {16, 40, 100, -1}}
    \cup {WavReordered(64, 0)}
    \cup NoDataWavs \cup {TruncatedWav}
BigWav == Wav(BigSamples, 0)

\* Further Subjects: "", the marker alone, the marker followed by "aGkxQ"
\* (length 1 modulo 4), "x" followed by the marker and "aGk=", the marker
\* followed by "aG k=", and the marker followed by twelve 'A'.
MoreSubjects ==
  {Given(<<>>), Given(Flag), Given(Flag \o <<97, 71, 107, 120, 81>>),
   Given(<<120>> \o Flag \o <<97, 71, 107, 61>>),
   Given(Flag \o <<97, 71, 32, 107, 61>>),
   Given(Flag \o [k \in 1..12 |-> 65])}

\* The Subject of the input PDF: absent, "Report", the marker followed by
\* "!!!", and the marker followed by "aGk" (base64 without its padding).
Subjects ==
  {Undefined, Given(<<82, 101, 112, 111, 114, 116>>), Given(Flag \o <<33, 33, 33>>),
   Given(Flag \o <<97, 71, 107>>)} \cup MoreSubjects

\* Texts handed to decryptMessage directly.
EnvelopeTexts ==
  {\* {"s":1,"iv":1,"d":1}
   <<123, 34, 115, 34, 58, 49, 44, 34, 105, 118, 34, 58, 49, 44, 34, 100, 34, 58, 49, 125>>,
   \* {"s":"x","iv":"y","d":"z"}
   <<123, 34, 115, 34, 58, 34, 120, 34, 44, 34, 105, 118, 34, 58, 34, 121, 34, 44, 34, 100, 34, 58, 34, 122, 34, 125>>,
   \* {"s":[1],"iv":[2]}
   <<123, 34, 115, 34, 58, 91, 49, 93, 44, 34, 105, 118, 34, 58, 91, 50, 93, 125>>,
   \* {"s":null,"iv":[1],"d":[1]}
   <<123, 34, 115, 34, 58, 110, 117, 108, 108, 44, 34, 105, 118, 34, 58, 91, 49, 93, 44, 34, 100, 34, 58, 91, 49, 93, 125>>,
   \* null
   <<110, 117, 108, 108>>,
   \* hello
   <<104, 101, 108, 108, 111>>,
   \* {"s":0,"iv":[1],"d":[1]}
   <<123, 34, 115, 34, 58, 48, 44, 34, 105, 118, 34, 58, 91, 49, 93, 44, 34, 100, 34, 58, 91, 49, 93, 125>>,
   \* {"s":[1,2],"iv":[3],"d":20}
   <<123, 34, 115, 34, 58, 91, 49, 44, 50, 93, 44, 34, 105, 118, 34, 58, 91, 51, 93, 44, 34, 100, 34, 58, 50, 48, 125>>,
   \* [1,2,3]
   <<91, 49, 44, 50, 44, 51, 93>>,
   \* (the empty text)
   <<>>,
   \* {"s":[],"iv":[],"d":[]}
   <<123, 34, 115, 34, 58, 91, 93, 44, 34, 105, 118, 34, 58, 91, 93, 44, 34, 100, 34, 58, 91, 93, 125>>,
   \* {"s":[1],"iv":[2],"d":[3,4] 
   <<123, 34, 115, 34, 58, 91, 49, 93, 44, 34, 105, 118, 34, 58, 91, 50, 93, 44, 34, 100, 34, 58, 91, 51, 44, 52, 93, 32>>}

(***************************************************************************)
(* State: one session on one carrier.  A carrier is encoded once, a raw or  *)
(* encoded carrier may be corrupted once, and any carrier may be decoded.  *)
(***************************************************************************)
VARIABLES
  mode,      \* "image", "audio", "pdf", or "envelope" for the cipher alone
  input,     \* the carrier the session started with
  carrier,   \* the current file: pixel bytes, WAV bytes, Subject, envelope text
  message,   \* the message given to encode
  password,  \* the password given to encode
  pc,        \* "start", "encoded", "corrupted", "done"
  buffer,    \* the byte buffer of the last encode call when it ended
  payload,   \* finalMessage of the last image or audio encode call
  frame,     \* fullBinary of the last image or audio encode call
  res,       \* the outcome of the last call
  generated, \* the outputs of crypto.getRandomValues so far, in order
  used,      \* per encryptMessage call: which outputs were its salt and iv
  heap,      \* concurrent calls: the byte buffers, by identity
  calls,     \* concurrent calls: the state of each call
  offset,    \* chunk walk: let offset
  file,      \* StegoInterface: useState file
  activeTab, \* StegoInterface: useState activeTab
  result,    \* StegoInterface: useState result
  processing,\* StegoInterface: useState processing
  tasks,     \* StegoInterface: the async handlers suspended at an await
  started    \* StegoInterface: how many async handlers were started

\* The state of the StegoInterface component besides mode, message, password.
uiVars == <<file, activeTab, result, processing, tasks, started>>

vars ==
  <<mode, input, carrier, message, password, pc, buffer, payload, frame, res,
    generated, used, heap, calls, offset, uiVars>>

\* Most encryptMessage calls of one session.
MaxEncryptCalls == 2

\* Mutant: every call takes the first output ever generated as its salt.
SaltDrawOfFirstCall(n) == 1

\* const salt = getRandomValues(...): the output a call takes as its salt,
\* when n outputs were generated before the call.
SaltDraw(n) == n + 1

\* const iv = getRandomValues(...): the output a call takes as its iv.
IvDraw(n) == n + 2

\* The salt and the iv of an encryptMessage call during which the generator
\* gives the outputs first and second.
SaltOf(first, second) == (generated \o <<first, second>>)[SaltDraw(Len(generated))]
IvOf(first, second) == (generated \o <<first, second>>)[IvDraw(Len(generated))]

\* The generator's part of an encode call: encryptMessage runs, and draws,
\* only when the password is truthy.
Draw(first, second) ==
  IF Truthy(password)
  THEN /\ generated' = generated \o <<first, second>>
       /\ used' = Append(used, [salt |-> SaltDraw(Len(generated)),
                                iv |-> IvDraw(Len(generated))])
  ELSE UNCHANGED <<generated, used>>

\* The component is not mounted and no chunk walk is shown step by step.
NoView ==
  /\ offset = 0
  /\ file = <<>> /\ activeTab = "encode" /\ result = <<>>
  /\ processing = [isProcessing |-> FALSE, progress |-> 0]
  /\ tasks = {} /\ started = 0

NoResult ==
  [op |-> "none", src |-> "none", pw |-> Undefined, ok |-> TRUE, err |-> "",
   text |-> <<>>, derived |-> FALSE, tagChecked |-> FALSE]

EncodeResult(r) ==
  [NoResult EXCEPT !.op = "encode", !.src = "start", !.pw = password,
                   !.ok = r.ok, !.err = r.err]

DecodeResult(r, q) ==
  [op |-> "decode", src |-> pc, pw |-> q, ok |-> r.ok, err |-> r.err,
   text |-> r.text, derived |-> r.derived, tagChecked |-> r.tagChecked]

\* The large carriers are only used with a password, the envelope texts only
\* for decryptMessage, the envelope-shaped message only without a password.
Init ==
  /\ \/ /\ mode = "image" /\ input \in Images
        /\ message \in Messages /\ password \in Passwords
     \/ /\ mode = "image" /\ input = BigImage
        /\ message \in Messages /\ password \in {p \in Passwords : Truthy(p)}
     \/ /\ mode = "audio" /\ input \in Wavs
        /\ message \in Messages /\ password \in Passwords
     \/ /\ mode = "audio" /\ input = BigWav
        /\ message \in Messages /\ password \in {p \in Passwords : Truthy(p)}
     \/ /\ mode = "pdf" /\ input \in Subjects
        /\ message \in Messages /\ password \in Passwords
     \/ /\ mode = "image" /\ input = Image(120, 0)
        /\ message = EnvelopeShapedMessage /\ password \in {p \in Passwords : ~Truthy(p)}
     \/ /\ mode = "pdf" /\ input = Undefined
        /\ message = EnvelopeShapedMessage /\ password \in {p \in Passwords : ~Truthy(p)}
     \/ /\ mode = "envelope" /\ input \in EnvelopeTexts
        /\ message = <<>> /\ password = Undefined
     \/ /\ mode = "envelope" /\ input = <<>>
        /\ message \in EnvelopeMessages /\ password \in {p \in Passwords : Truthy(p)}
  /\ carrier = input
  /\ pc = "start"
  /\ buffer = <<>>
  /\ payload = <<>>
  /\ frame = <<>>
  /\ res = NoResult
  /\ generated = <<>>
  /\ used = <<>>
  /\ heap = <<>>
  /\ calls = <<>>
  /\ NoView

\* The carrier-independent part of an encode call's effect.
Encoded(r) ==
  /\ res' = EncodeResult(r)
  /\ pc' = IF r.ok THEN "encoded" ELSE "done"
  /\ UNCHANGED <<mode, input, message, password, heap, calls, offset, uiVars>>

EncodeImage ==
  /\ mode = "image" /\ pc = "start"
  /\ \E salt \in RandomBytes(SALT_LENGTH), iv \in RandomBytes(IV_LENGTH) :
       \E r \in {encodeImage(carrier, message, password, SaltOf(salt, iv), IvOf(salt, iv))} :
          /\ Encoded(r)
          /\ Draw(salt, iv)
          /\ buffer' = r.data
          /\ payload' = r.text
          /\ frame' = r.bits
          \* canvas.toBlob(..., 'image/png') of the written pixel buffer
          /\ carrier' = IF r.ok THEN r.data ELSE carrier

EncodeAudio ==
  /\ mode = "audio" /\ pc = "start"
  /\ \E salt \in RandomBytes(SALT_LENGTH), iv \in RandomBytes(IV_LENGTH) :
       \E r \in {encodeAudio(carrier, message, password, SaltOf(salt, iv), IvOf(salt, iv))} :
          /\ Encoded(r)
          \* encryptMessage is called once the data chunk is found
          /\ IF FindDataChunk(carrier, RiffHeaderLength).found THEN Draw(salt, iv)
             ELSE UNCHANGED <<generated, used>>
          /\ buffer' = r.data
          /\ payload' = r.text
          /\ frame' = r.bits
          /\ carrier' = IF r.ok THEN r.data ELSE carrier

EncodePdf ==
  /\ mode = "pdf" /\ pc = "start"
  /\ \E salt \in RandomBytes(SALT_LENGTH), iv \in RandomBytes(IV_LENGTH) :
       \E r \in {encodePdf(carrier, message, password, SaltOf(salt, iv), IvOf(salt, iv))} :
          /\ Encoded(r)
          /\ Draw(salt, iv)
          /\ carrier' = r.out
          /\ UNCHANGED <<buffer, payload, frame>>

\* encryptMessage called on its own, any number of times up to the bound;
\* it is only called with a password.
EncryptMessage ==
  /\ mode = "envelope" /\ pc \in {"start", "encoded"} /\ Truthy(password)
  /\ Len(used) < MaxEncryptCalls
  /\ \E salt \in RandomBytes(SALT_LENGTH), iv \in RandomBytes(IV_LENGTH) :
       /\ carrier' = encryptMessage(message, password[1], SaltOf(salt, iv), IvOf(salt, iv))
       /\ Draw(salt, iv)
  /\ Encoded([ok |-> TRUE, err |-> ""])
  /\ UNCHANGED <<buffer, payload, frame>>

CorruptImage ==
  /\ mode = "image" /\ pc \in {"start", "encoded"}
  /\ carrier' = corruptImage(carrier)
  /\ pc' = IF pc = "encoded" THEN "corrupted" ELSE "done"
  /\ res' = [NoResult EXCEPT !.op = "corrupt", !.src = pc]
  /\ UNCHANGED <<mode, input, message, password, buffer, payload, frame,
                 generated, used, heap, calls, offset, uiVars>>

CorruptAudio ==
  /\ mode = "audio" /\ pc \in {"start", "encoded"}
  /\ \E r \in {corruptAudio(carrier)} :
        /\ carrier' = r.data
        /\ pc' = IF r.ok /\ pc = "encoded" THEN "corrupted" ELSE "done"
        /\ res' = [NoResult EXCEPT !.op = "corrupt", !.src = pc,
                                   !.ok = r.ok, !.err = r.err]
  /\ UNCHANGED <<mode, input, message, password, buffer, payload, frame,
                 generated, used, heap, calls, offset, uiVars>>

CorruptPdf ==
  /\ mode = "pdf" /\ pc \in {"start", "encoded"}
  /\ carrier' = corruptPdf(carrier)
  /\ pc' = IF pc = "encoded" THEN "corrupted" ELSE "done"
  /\ res' = [NoResult EXCEPT !.op = "corrupt", !.src = pc]
  /\ UNCHANGED <<mode, input, message, password, buffer, payload, frame,
                 generated, used, heap, calls, offset, uiVars>>

\* The carrier-independent part of a decode call's effect.
DecodedWith(r, q) ==
  /\ res' = DecodeResult(r, q)
  /\ pc' = "done"
  /\ UNCHANGED <<mode, input, carrier, message, password, buffer, payload, frame,
                 generated, used, heap, calls, offset, uiVars>>

DecodeImage ==
  /\ mode = "image" /\ pc \in {"start", "encoded", "corrupted"}
  /\ \E q \in DecodePasswords :
       \E r \in {decodeImage(carrier, q)} : DecodedWith(r, q)

DecodeAudio ==
  /\ mode = "audio" /\ pc \in {"start", "encoded", "corrupted"}
  /\ \E q \in DecodePasswords :
       \E r \in {decodeAudio(carrier, q)} : DecodedWith(r, q)

DecodePdf ==
  /\ mode = "pdf" /\ pc \in {"start", "encoded", "corrupted"}
  /\ \E q \in DecodePasswords :
       \E r \in {decodePdf(carrier, q)} : DecodedWith(r, q)

\* decryptMessage called on its own; it is only called with a password.
DecryptMessage ==
  /\ mode = "envelope" /\ pc \in {"start", "encoded"}
  /\ \E q \in {d \in DecodePasswords : Truthy(d)} :
       \E r \in {decryptMessage(carrier, q[1])} : DecodedWith(r, q)

Next ==
  \/ EncodeImage \/ EncodeAudio \/ EncodePdf \/ EncryptMessage
  \/ CorruptImage \/ CorruptAudio \/ CorruptPdf
  \/ DecodeImage \/ DecodeAudio \/ DecodePdf \/ DecryptMessage

Spec == Init /\ [][Next]_vars

(***************************************************************************)
(* Concurrent calls on one File.  Every call is a promise chain that runs  *)
(* without interruption between two awaits: from the resolution of         *)
(* file.arrayBuffer() (audio) or of the image load (image) up to the await *)
(* of encryptMessage / decryptMessage, and from there to its end.  A       *)
(* buffer is known by its identity in heap; identity 0 is the storage of   *)
(* the File.  canvas.toBlob encodes the canvas of its own call, which      *)
(* putImageData filled before the call was suspended.                      *)
(***************************************************************************)
\* Calls that run concurrently.
NumCalls == 2

Buffers == 0..(2 * NumCalls)

\* What a call is asked to do.
CallInputs ==
  {[op |-> "encode", message |-> <<65>>, password |-> Undefined],
   [op |-> "encode", message |-> <<65>>, password |-> Given(<<112, 119>>)],
   [op |-> "decode", message |-> <<>>, password |-> Undefined],
   [op |-> "decode", message |-> <<>>, password |-> Given(<<112, 119>>)],
   [op |-> "corrupt", message |-> <<>>, password |-> Undefined]}

\* The Files: a WAV file with room for an envelope, and an image with room
\* for a bare message only; their first 32 slots read 16.
SharedFiles ==
  {<<"audio", Wav(BigSamples, 16)>>, <<"image", Image(22, 16)>>}

\* What the calls are asked to do: at most one of them encrypts.
CallAssignments ==
  {ins \in [1..NumCalls -> CallInputs] :
     \A c, d \in 1..NumCalls :
       (c # d /\ ins[c].op = "encode" /\ ins[d].op = "encode")
         => ~(Truthy(ins[c].password) /\ Truthy(ins[d].password))}

NoOutcome == [ok |-> TRUE, err |-> "", data |-> <<>>, text |-> <<>>]

\* Mutant: every call is handed the storage of the File itself.
ArrayBufferShared(c) == 0

\* await file.arrayBuffer(), ctx.getImageData(...).data: the buffer call c
\* is handed, a new one holding a copy of the File's bytes or pixels.
ArrayBufferOf(c) == c

\* arrayBuffer.slice(0) in corruptAudio: a second new buffer.
SliceOf(c) == NumCalls + c

ConcurrentInit ==
  /\ \E f \in SharedFiles : mode = f[1] /\ input = f[2]
  /\ carrier = input /\ message = <<>> /\ password = Undefined
  /\ pc = "concurrent" /\ buffer = <<>> /\ payload = <<>> /\ frame = <<>>
  /\ res = NoResult /\ generated = <<>> /\ used = <<>> /\ NoView
  /\ heap = [b \in Buffers |-> IF b = 0 THEN input ELSE <<>>]
  /\ \E ins \in CallAssignments :
       calls = [c \in 1..NumCalls |->
                  [op |-> ins[c].op, message |-> ins[c].message,
                   password |-> ins[c].password, pc |-> "load", buf |-> 0,
                   salt |-> <<>>, iv |-> <<>>, text |-> <<>>, out |-> NoOutcome]]

ConcurrentUnchanged ==
  UNCHANGED <<mode, input, carrier, message, password, pc, buffer, payload, frame, res,
              offset, uiVars>>

\* The call ends with the given outcome.
Settle(c, out) == calls' = [calls EXCEPT ![c].pc = "done", ![c].out = out]

\* encodeAudio or encodeImage, by the kind of the File.
EncodeCarrier(bytes, msg, pw, salt, iv) ==
  IF mode = "audio" THEN encodeAudio(bytes, msg, pw, salt, iv)
  ELSE encodeImage(bytes, msg, pw, salt, iv)

\* decodeAudio or decodeImage, by the kind of the File.
DecodeCarrier(bytes, pw) ==
  IF mode = "audio" THEN decodeAudio(bytes, pw) ELSE decodeImage(bytes, pw)

\* corruptAudio or corruptImage, by the kind of the File.
CorruptCarrier(bytes) ==
  IF mode = "audio" THEN corruptAudio(bytes)
  ELSE [ok |-> TRUE, err |-> "", data |-> corruptImage(bytes)]

\* What a call resolves with or throws: a Blob of the bytes, or an error.
BlobOutcome(r) ==
  [NoOutcome EXCEPT !.ok = r.ok, !.err = r.err, !.data = IF r.ok THEN r.data ELSE <<>>]

\* What a decode call resolves with or throws.
TextOutcome(d) == [NoOutcome EXCEPT !.ok = d.ok, !.err = d.err, !.text = d.text]

\* An encode call from the resolution of its load to its first await or its
\* end: when no data chunk is found it throws; with a password it calls
\* encryptMessage, which draws the salt and the iv and is awaited; without
\* one it writes the frame and ends.
LoadEncode(c) ==
  /\ calls[c].pc = "load" /\ calls[c].op = "encode"
  /\ \E b \in {ArrayBufferOf(c)} :
     \E loaded \in {[heap EXCEPT ![b] = heap[0]]} :
     \E r \in {EncodeCarrier(loaded[b], calls[c].message, Undefined, <<>>, <<>>)} :
       IF r.err \in {"InvalidWav", "RangeError"} \/ ~Truthy(calls[c].password)
       THEN /\ heap' = [loaded EXCEPT ![b] = r.data]
            /\ calls' = [calls EXCEPT ![c].pc = "done", ![c].buf = b,
                                      ![c].out = BlobOutcome(r)]
            /\ UNCHANGED <<generated, used>>
       ELSE /\ heap' = loaded
            /\ \E salt \in RandomBytes(SALT_LENGTH), iv \in RandomBytes(IV_LENGTH) :
                 /\ calls' = [calls EXCEPT ![c].pc = "encrypt", ![c].buf = b,
                                ![c].salt = SaltOf(salt, iv), ![c].iv = IvOf(salt, iv)]
                 /\ generated' = generated \o <<salt, iv>>
                 /\ used' = Append(used, [salt |-> SaltDraw(Len(generated)),
                                          iv |-> IvDraw(Len(generated))])
  /\ ConcurrentUnchanged

\* An encode call after encryptMessage resolved: the capacity test and the
\* write into the call's buffer.
AfterEncrypt(c) ==
  /\ calls[c].pc = "encrypt"
  /\ \E r \in {EncodeCarrier(heap[calls[c].buf], calls[c].message, calls[c].password,
                              calls[c].salt, calls[c].iv)} :
       /\ heap' = [heap EXCEPT ![calls[c].buf] = r.data]
       /\ Settle(c, BlobOutcome(r))
  /\ UNCHANGED <<generated, used>>
  /\ ConcurrentUnchanged

\* A decode call from the resolution of its load: it reads the header and
\* the body, and with a password awaits decryptMessage.
LoadDecode(c) ==
  /\ calls[c].pc = "load" /\ calls[c].op = "decode"
  /\ \E b \in {ArrayBufferOf(c)} :
     \E loaded \in {[heap EXCEPT ![b] = heap[0]]} :
     \E d \in {DecodeCarrier(loaded[b], Undefined)} :
       /\ heap' = loaded
       /\ IF ~d.ok \/ ~Truthy(calls[c].password)
          THEN calls' = [calls EXCEPT ![c].pc = "done", ![c].buf = b,
                                     ![c].out = TextOutcome(d)]
          ELSE calls' = [calls EXCEPT ![c].pc = "decrypt", ![c].buf = b,
                                     ![c].text = d.text]
  /\ UNCHANGED <<generated, used>>
  /\ ConcurrentUnchanged

\* A decode call after decryptMessage settled.
AfterDecrypt(c) ==
  /\ calls[c].pc = "decrypt"
  /\ \E d \in {decryptMessage(calls[c].text, calls[c].password[1])} :
       Settle(c, TextOutcome(d))
  /\ UNCHANGED <<heap, generated, used>>
  /\ ConcurrentUnchanged

\* A corrupt call from the resolution of its load to its end; corruptAudio
\* flips the bit in a slice of the buffer it was handed, corruptImage in
\* the pixel buffer itself.
LoadCorrupt(c) ==
  /\ calls[c].pc = "load" /\ calls[c].op = "corrupt"
  /\ \E b \in {ArrayBufferOf(c)} :
     \E target \in {IF mode = "audio" THEN SliceOf(c) ELSE b} :
     \E loaded \in {[heap EXCEPT ![b] = heap[0]]} :
     \E r \in {CorruptCarrier(loaded[b])} :
       /\ heap' = [loaded EXCEPT ![target] = r.data]
       /\ calls' = [calls EXCEPT ![c].pc = "done", ![c].buf = target,
                                 ![c].out = BlobOutcome(r)]
  /\ UNCHANGED <<generated, used>>
  /\ ConcurrentUnchanged

ConcurrentNext ==
  \E c \in 1..NumCalls :
    \/ LoadEncode(c) \/ AfterEncrypt(c)
    \/ LoadDecode(c) \/ AfterDecrypt(c)
    \/ LoadCorrupt(c)

SpecConcurrent == ConcurrentInit /\ [][ConcurrentNext]_vars

(***************************************************************************)
(* The chunk walk of encodeAudio, decodeAudio and corruptAudio, one loop    *)
(* iteration per step.  The three loops are the same code; a loop runs to   *)
(* its end without yielding, which is the fairness of SpecScan.             *)
(***************************************************************************)
\* Most chunks of a scanned stream.
MaxChunks == 2

\* Chunks by id, declared length and bytes held: lengths 0, 3 (all held),
\* 200 (two held) and 2^32 - 1 (none held).
ScanChunks ==
  {id \o c[1] \o c[2] :
     id \in {<<102, 109, 116, 32>>, DataId},
     c \in {<< <<0, 0, 0, 0>>, <<>> >>, << <<3, 0, 0, 0>>, <<1, 2, 3>> >>,
            << <<200, 0, 0, 0>>, <<7, 7>> >>, << <<255, 255, 255, 255>>, <<>> >>}}

\* The streams: the RIFF header, then chunks, then nothing, three bytes of a
\* chunk id or a chunk id with two bytes of a length; and a stream shorter
\* than the RIFF header.
ScanStreams ==
  {RiffHeader \o Join(cs) \o t :
     cs \in UNION {[1..n -> ScanChunks] : n \in 0..MaxChunks},
     t \in {<<>>, <<76, 73, 83>>, <<76, 73, 83, 84, 2, 0>>}}
    \cup {SubSeq(RiffHeader, 1, 8)}

ScanInit ==
  /\ mode = "audio" /\ input \in ScanStreams /\ carrier = input
  /\ message = <<>> /\ password = Undefined
  /\ pc = "scan" /\ buffer = <<>> /\ payload = <<>> /\ frame = <<>>
  /\ res = NoResult /\ generated = <<>> /\ used = <<>>
  /\ heap = <<>> /\ calls = <<>>
  /\ file = <<>> /\ activeTab = "encode" /\ result = <<>>
  /\ processing = [isProcessing |-> FALSE, progress |-> 0]
  /\ tasks = {} /\ started = 0
  \* let offset = 12;
  /\ offset = RiffHeaderLength

\* Mutant: the walk goes on from the chunk's header plus its length.
NextChunkOffsetFromHeader(at, chunkSize) == at + chunkSize

\* offset += 4; offset += 4; offset += chunkSize, from the chunk's header at
NextChunkOffset(at, chunkSize) == at + 8 + chunkSize

\* One pass of while (offset < dataView.byteLength) { ... }.  pc becomes
\* "ended" when the loop is left (the throw after it), "error" when getUint8,
\* getUint32 or new Uint8Array throws a RangeError, "found" when the data
\* chunk's view is created: the function then goes on and never loops again.
ScanStep ==
  /\ pc = "scan"
  /\ IF ~(offset < Len(carrier))
     THEN pc' = "ended" /\ offset' = offset
     ELSE IF offset + 4 > Len(carrier)
     THEN pc' = "error" /\ offset' = offset
     ELSE IF offset + 8 > Len(carrier)
     THEN pc' = "error" /\ offset' = offset + 4
     ELSE IF SubSeq(carrier, offset + 1, offset + 4) = DataId
     THEN /\ offset' = offset + 8
          /\ pc' = IF offset + 8 + Uint32LE(carrier, offset + 4) > Len(carrier)
                   THEN "error" ELSE "found"
     ELSE /\ offset' = NextChunkOffset(offset, Uint32LE(carrier, offset + 4))
          /\ pc' = "scan"
  /\ UNCHANGED <<mode, input, carrier, message, password, buffer, payload, frame,
                 res, generated, used, heap, calls, uiVars>>

SpecScan == ScanInit /\ [][ScanStep]_vars /\ WF_vars(ScanStep)

(***************************************************************************)
(* StegoInterface.tsx: the component's state and its handlers.  mode is the *)
(* prop, message and password the text fields; a File is Given of its kind  *)
(* and bytes, and null is Undefined, for file and result alike.  An async   *)
(* handler                                                                  *)
(* runs to its next await in one step and is kept in tasks, with the values *)
(* its closure captured, until it ends.  The audit log is left out.         *)
(***************************************************************************)
\* Most handlers suspended at one time, and most started in a session.
MaxTasks == 2
MaxStarted == 3

\* The files the picker offers in a mode: one raw carrier of the mode's kind.
UiFiles(m) ==
  CASE m = "image" -> {Given([kind |-> m, bytes |-> Image(22, 16)])}
    [] m = "audio" -> {Given([kind |-> m, bytes |-> Wav(64, 16)])}
    [] m = "pdf" -> {Given([kind |-> m, bytes |-> Given(<<82, 101, 112, 111, 114, 116>>)])}

\* useState initial values, then the mode effect of the mount.
UiInit ==
  /\ mode \in {"image", "audio", "pdf"}
  /\ message = <<>> /\ password = Given(<<>>)
  /\ file = Undefined /\ activeTab = "encode" /\ result = Undefined
  /\ processing = [isProcessing |-> FALSE, progress |-> 0]
  /\ tasks = <<>> /\ started = 0
  /\ pc = "ui" /\ input = <<>> /\ carrier = <<>>
  /\ buffer = <<>> /\ payload = <<>> /\ frame = <<>>
  /\ res = NoResult /\ generated = <<>> /\ used = <<>>
  /\ heap = <<>> /\ calls = <<>> /\ offset = 0

UiUnchanged ==
  UNCHANGED <<input, carrier, pc, buffer, payload, frame, res, generated, used,
              heap, calls, offset>>

\* The parent selects another mode; the effect of lines 41-48 runs.
ChangeMode ==
  /\ \E m \in {"image", "audio", "pdf"} \ {mode} : mode' = m
  /\ file' = Undefined /\ message' = <<>> /\ result' = Undefined
  /\ password' = Given(<<>>)
  /\ UNCHANGED <<activeTab, processing, tasks, started>> /\ UiUnchanged

handleFileChange ==
  /\ \E f \in UiFiles(mode) : file' = f
  /\ result' = Undefined
  /\ UNCHANGED <<mode, message, password, activeTab, processing, tasks, started>> /\ UiUnchanged

handlePurge ==
  /\ file' = Undefined /\ message' = <<>> /\ password' = Given(<<>>)
  /\ result' = Undefined
  /\ UNCHANGED <<mode, activeTab, processing, tasks, started>> /\ UiUnchanged

\* onClick={() => setActiveTab(...)}
setActiveTab ==
  /\ activeTab' = IF activeTab = "encode" THEN "decode" ELSE "encode"
  /\ UNCHANGED <<mode, message, password, file, result, processing, tasks, started>> /\ UiUnchanged

\* onChange of the textarea (shown on the encode tab) and of the password field
setMessage ==
  /\ activeTab = "encode"
  /\ \E m \in {<<>>, <<65>>} \ {message} : message' = m
  /\ UNCHANGED <<mode, password, file, activeTab, result, processing, tasks, started>> /\ UiUnchanged

setPassword ==
  /\ \E q \in {Given(<<>>), Given(<<112, 119>>)} \ {password} : password' = q
  /\ UNCHANGED <<mode, message, file, activeTab, result, processing, tasks, started>> /\ UiUnchanged

\* The EXECUTE button, enabled by line 291, runs processSteganography to its
\* first await (the 600 ms timer).
processSteganography ==
  /\ file # Undefined /\ ~(activeTab = "encode" /\ message = <<>>)
  /\ ~processing.isProcessing
  /\ Len(tasks) < MaxTasks /\ started < MaxStarted
  /\ started' = started + 1
  /\ processing' = [isProcessing |-> TRUE, progress |-> 10]
  /\ result' = Undefined
  /\ tasks' = Append(tasks, [op |-> activeTab, at |-> "timer", mode |-> mode,
                             file |-> file, message |-> message,
                             password |-> password, kind |-> mode, data |-> <<>>])
  /\ UNCHANGED <<mode, message, password, file, activeTab>> /\ UiUnchanged

\* The timer fires: lines 119-124, then the codec is called and awaited.
AfterTimer(i) ==
  /\ tasks[i].op \in {"encode", "decode"} /\ tasks[i].at = "timer"
  /\ processing' = [processing EXCEPT !.progress = 50]
  /\ tasks' = [tasks EXCEPT ![i].at = "codec"]
  /\ UNCHANGED <<mode, message, password, file, activeTab, result, started>> /\ UiUnchanged

\* The codec call of lines 128-134 or 147-153 on the captured values.  A
\* file of another kind than the mode's is not one the function loads: the
\* load fails and the call throws.
CodecCall(t, salt, iv) ==
  CASE t.mode # t.file[1].kind ->
         [ok |-> FALSE, err |-> "LoadError"]
    [] t.op = "encode" /\ t.mode = "image" ->
         encodeImage(t.file[1].bytes, t.message, t.password, salt, iv)
    [] t.op = "encode" /\ t.mode = "audio" ->
         encodeAudio(t.file[1].bytes, t.message, t.password, salt, iv)
    [] t.op = "encode" /\ t.mode = "pdf" ->
         encodePdf(t.file[1].bytes, t.message, t.password, salt, iv)
    [] t.op = "decode" /\ t.mode = "image" -> decodeImage(t.file[1].bytes, t.password)
    [] t.op = "decode" /\ t.mode = "audio" -> decodeAudio(t.file[1].bytes, t.password)
    [] t.op = "decode" /\ t.mode = "pdf" -> decodePdf(t.file[1].bytes, t.password)

\* The codec call settles: setResult of lines 137-141, 156-159 or 166-169,
\* then the finally of line 171.  blob: data is a Blob.  of is not a field
\* of StegoResult: it records the file and the mode the handler was
\* started on.
AfterCodec(i) ==
  /\ tasks[i].op \in {"encode", "decode"} /\ tasks[i].at = "codec"
  /\ \E salt \in RandomBytes(SALT_LENGTH), iv \in RandomBytes(IV_LENGTH) :
       \E r \in {CodecCall(tasks[i], salt, iv)} :
          result' = Given([success |-> r.ok,
                           blob |-> r.ok /\ tasks[i].op = "encode",
                           data |-> IF ~r.ok THEN <<>>
                                    ELSE IF tasks[i].op = "decode" THEN r.text
                                    ELSE IF tasks[i].mode = "pdf" THEN r.out
                                    ELSE r.data,
                           error |-> r.err,
                           of |-> <<tasks[i].file, tasks[i].mode>>])
  /\ processing' = [isProcessing |-> FALSE, progress |-> 0]
  /\ tasks' = SubSeq(tasks, 1, i - 1) \o SubSeq(tasks, i + 1, Len(tasks))
  /\ UNCHANGED <<mode, message, password, file, activeTab, started>> /\ UiUnchanged

\* The SIMULATE CORRUPTION button, rendered by lines 351 and 372, runs
\* handleSimulateCorruption to its await when line 82 lets it pass.
handleSimulateCorruption ==
  /\ result # Undefined /\ result[1].success /\ activeTab = "encode"
  /\ result[1].blob
  /\ Len(tasks) < MaxTasks /\ started < MaxStarted
  /\ started' = started + 1
  /\ processing' = [isProcessing |-> TRUE, progress |-> 50]
  /\ tasks' = Append(tasks, [op |-> "corrupt", at |-> "codec", mode |-> mode,
                             file |-> file, message |-> <<>>,
                             password |-> Given(<<>>), kind |-> result[1].of[2],
                             data |-> result[1].data])
  /\ UNCHANGED <<mode, message, password, file, activeTab, result>> /\ UiUnchanged

\* corruptImage, corruptAudio or corruptPdf on the captured Blob, by the
\* captured mode.  A Blob made in another mode is not a file of the kind the
\* function loads: the load fails and the call throws.
CorruptCall(t) ==
  CASE t.mode # t.kind -> [ok |-> FALSE, err |-> "LoadError", data |-> t.data]
    [] t.mode = "image" -> [ok |-> TRUE, err |-> "", data |-> corruptImage(t.data)]
    [] t.mode = "audio" -> corruptAudio(t.data)
    [] t.mode = "pdf" -> [ok |-> TRUE, err |-> "", data |-> corruptPdf(t.data)]

\* The corruption call settles: lines 93-95 or the catch, then the finally
\* of line 102.
AfterCorrupt(i) ==
  /\ tasks[i].op = "corrupt"
  /\ \E r \in {CorruptCall(tasks[i])} :
       IF r.ok
       THEN /\ file' = Given([kind |-> tasks[i].kind, bytes |-> r.data])
            /\ activeTab' = "decode" /\ result' = Undefined
       ELSE UNCHANGED <<file, activeTab, result>>
  /\ processing' = [isProcessing |-> FALSE, progress |-> 0]
  /\ tasks' = SubSeq(tasks, 1, i - 1) \o SubSeq(tasks, i + 1, Len(tasks))
  /\ UNCHANGED <<mode, message, password, started>> /\ UiUnchanged

UiNext ==
  \/ ChangeMode \/ handleFileChange \/ handlePurge
  \/ setActiveTab \/ setMessage \/ setPassword
  \/ processSteganography \/ handleSimulateCorruption
  \/ \E i \in DOMAIN tasks : AfterTimer(i)
  \/ \E i \in DOMAIN tasks : AfterCodec(i)
  \/ \E i \in DOMAIN tasks : AfterCorrupt(i)

SpecUi == UiInit /\ [][UiNext]_vars

(***************************************************************************)
(* Checked properties                                                      *)
(***************************************************************************)
IsLsbMode == mode \in {"image", "audio"}
IsCarrierMode == mode \in {"image", "audio", "pdf"}

\* A decode call has just ended, on a carrier in the given stage.
DecodedFrom(stage) == res.op = "decode" /\ res.src = stage

\* The capacity in bits of the input carrier: 3/4 of the channel bytes of an
\* image, the length of the data chunk of a WAV stream.
Capacity ==
  IF mode = "image" THEN (3 * Len(input)) \div 4
  ELSE FindDataChunk(input, RiffHeaderLength).size

\* C1: for the image and audio adapters, decoding what encode produced, with
\* the password given to encode, returns exactly the message.
C1_RoundTripLsb ==
  (IsLsbMode /\ DecodedFrom("encoded") /\ res.pw = password)
    => (res.ok /\ res.text = message)

\* C2: for the PDF adapter, encode never fails, and decoding what it produced,
\* with the password given to encode, returns exactly the message.
C2_RoundTripPdf ==
  mode = "pdf" =>
    /\ res.op = "encode" => res.ok
    /\ (DecodedFrom("encoded") /\ res.pw = password)
         => (res.ok /\ res.text = message)

\* C3: decoding a corrupted password-encoded artifact with its password fails
\* with the Integrity error, for all three carriers.
C3_TamperIsIntegrity ==
  (IsCarrierMode /\ DecodedFrom("corrupted") /\ Truthy(password) /\ res.pw = password)
    => (~res.ok /\ res.err = "Integrity")

C5_CapacityBoundary ==
  (IsLsbMode /\ res.op = "encode" /\ frame # <<>>) =>
    /\ Len(frame) <= Capacity => res.ok
    /\ Len(frame) > Capacity
         => (~res.ok /\ res.err = "CapacityExceeded" /\ buffer = input
               /\ carrier = input)

C5_Witness ==
  /\ mode = "image" /\ res.op = "encode" /\ res.ok
  /\ Len(frame) = Capacity /\ buffer # input

\* C6: decoding a carrier that encode never produced fails with
\* NoHeaderFound / NoHiddenData and returns nothing.
C6_UnencodedIsRejected ==
  (IsCarrierMode /\ DecodedFrom("start")
     /\ (mode = "audio" => FindDataChunk(input, RiffHeaderLength).found))
    => (~res.ok /\ res.err \in {"NoHeaderFound", "NoHiddenData"})

\* The envelope text has the three-field shape: it parses to a record whose
\* fields s, iv and d are all arrays of byte values.
WellFormedEnvelope(text) ==
  LET bundle == JSONparse(text)
  IN /\ bundle.ok /\ bundle.isObj
     /\ \A name \in {<<115>>, <<105, 118>>, <<100>>} :
          /\ Property(bundle, name).t = "array"
          /\ \A k \in 1..Len(Property(bundle, name).a) : Property(bundle, name).a[k] <= 255

\* C7: decryptMessage reports Integrity exactly when the tag verification
\* fails, and a malformed envelope is reported with another error kind.
C7_IntegrityOnlyForTag ==
  (mode = "envelope" /\ res.op = "decode") =>
    /\ (res.err = "Integrity") <=> (~res.ok /\ res.tagChecked)
    /\ ~WellFormedEnvelope(carrier) => (~res.ok /\ res.err # "Integrity")

\* C8: a text that does not have the three-field shape fails as a malformed
\* envelope and never reaches key derivation.
C8_MalformedEnvelopeRejected ==
  (mode = "envelope" /\ res.op = "decode" /\ ~WellFormedEnvelope(carrier))
    => (~res.ok /\ res.err = "DecryptionFailed" /\ ~res.derived)

\* C9: the frame of a payload of n code units has 32 + 16n bits: the 32-bit
\* big-endian value 16n, then each code unit as 16 big-endian bits in order.
C9_FrameFormat ==
  (IsLsbMode /\ res.op = "encode" /\ frame # <<>>) =>
    LET n == Len(payload)
    IN /\ Len(frame) = 32 + 16 * n
       /\ frame[1] = 0
       /\ \A j \in 2..32 : frame[j] = ((16 * n) \div (2 ^ (32 - j))) % 2
       /\ \A k \in 1..n : \A j \in 1..16 :
            frame[32 + 16 * (k - 1) + j] = (payload[k] \div (2 ^ (16 - j))) % 2
       /\ ~Truthy(password) => payload = message

C9_Witness ==
  /\ IsLsbMode /\ res.op = "encode" /\ res.ok /\ password = Undefined
  /\ message = <<104, 101, 108, 108, 111>> /\ Len(frame) = 112

\* The value of the first 32 slot bits of the current carrier.
DeclaredLength ==
  IF mode = "image" THEN decodeImageBits(carrier).msgLength
  ELSE decodeAudioBits(carrier, FindDataChunk(carrier, RiffHeaderLength)).msgLength

\* The slot bits the current carrier holds.
SlotsAvailable ==
  IF mode = "image" THEN (3 * Len(carrier)) \div 4
  ELSE FindDataChunk(carrier, RiffHeaderLength).size

\* C10: image and audio decode fail with NoHeaderFound when the declared
\* length is not positive or exceeds the slot bits the carrier holds.
C10_HeaderBounds ==
  (IsLsbMode /\ res.op = "decode"
     /\ (mode = "audio" => FindDataChunk(carrier, RiffHeaderLength).found)
     /\ (DeclaredLength <= 0 \/ DeclaredLength > SlotsAvailable))
    => (~res.ok /\ res.err = "NoHeaderFound")

\* The carrier a corrupt call was given: what encode produced, or the input.
PreCorrupt == IF res.src = "encoded" THEN buffer ELSE input

\* C11: encodeImage changes only the least-significant bit of the first L
\* non-alpha bytes, in the order R, G, B of successive pixels, where L is
\* the frame length; alpha bytes, the upper seven bits of every byte and
\* the bytes after the L-th slot stay; decodeImage reads the same slots.
C11_ImageWriteFootprint ==
  (mode = "image" /\ res.op = "encode" /\ res.ok) =>
    LET L == Len(frame)
    IN /\ Len(buffer) = Len(input)
       /\ carrier = buffer
       /\ \A i \in 1..Len(buffer) :
            LET pixel == (i - 1) \div 4
                channel == (i - 1) % 4
                slot == 3 * pixel + channel
            IN /\ buffer[i] \div 2 = input[i] \div 2
               /\ channel = 3 => buffer[i] = input[i]
               /\ (channel < 3 /\ slot >= L) => buffer[i] = input[i]
               /\ (channel < 3 /\ slot < L) => buffer[i] % 2 = frame[slot + 1]
       /\ decodeImageBits(buffer).binary = SubSeq(frame, 33, L)

C11_Witness ==
  /\ mode = "image" /\ res.op = "encode" /\ res.ok /\ password = Undefined
  /\ message = <<104, 101, 108, 108, 111>> /\ Len(frame) < Capacity
  /\ buffer # input

\* C12: encodeAudio and corruptAudio leave every byte outside the data chunk
\* as it was; inside it encodeAudio changes only the least-significant bit
\* of the first L bytes, where L is the frame length.
C12_AudioWriteFootprint ==
  /\ (mode = "audio" /\ res.op = "encode" /\ res.ok) =>
       LET chunk == FindDataChunk(input, RiffHeaderLength)
           L == Len(frame)
       IN /\ Len(buffer) = Len(input)
          /\ carrier = buffer
          /\ \A p \in 1..Len(buffer) :
               /\ buffer[p] \div 2 = input[p] \div 2
               /\ (p <= chunk.start \/ p > chunk.start + chunk.size \/ p > chunk.start + L)
                    => buffer[p] = input[p]
  /\ (mode = "audio" /\ res.op = "corrupt" /\ res.ok) =>
       LET chunk == FindDataChunk(PreCorrupt, RiffHeaderLength)
       IN /\ Len(carrier) = Len(PreCorrupt)
          /\ \A p \in 1..Len(carrier) :
               (p <= chunk.start \/ p > chunk.start + chunk.size)
                 => carrier[p] = PreCorrupt[p]

C12_Witness ==
  /\ mode = "audio" /\ res.op = "corrupt" /\ res.src = "encoded"
  /\ input = WavReordered(64, 0) /\ buffer # input /\ carrier # buffer

\* C13: the data chunk is found wherever it sits among the chunks, and on a
\* byte stream without a data chunk encodeAudio, decodeAudio and
\* corruptAudio all fail with the invalid-container error.
C13_NoDataChunkIsInvalidContainer ==
  (mode = "audio" /\ res.op \in {"encode", "decode", "corrupt"} /\ res.src = "start") =>
    /\ input \in NoDataWavs => (~res.ok /\ res.err = "InvalidWav")
    /\ input \in {Wav(64, 0), WavReordered(64, 0)}
         => res.err \notin {"InvalidWav", "RangeError"}

\* The Subject starts with "STEGAPP_HIDDEN:".
HasMarker(subject) ==
  /\ subject # Undefined /\ Len(subject[1]) >= 15
  /\ SubSeq(subject[1], 1, 15) = Flag

\* The text after the marker.
AfterMarker(subject) == SubSeq(subject[1], 16, Len(subject[1]))

\* The text decodes as base64: without its whitespace, and without the one
\* or two '=' that end a text of a multiple of 4 characters, it consists of
\* characters of the alphabet and its length is not 1 modulo 4.
Base64Decodable(text) ==
  LET NotSpace(c) == c \notin {9, 10, 12, 13, 32}
      t == SelectSeq(text, NotSpace)
      n == Len(t)
      pad == IF n > 0 /\ n % 4 = 0 /\ t[n] = 61
             THEN (IF t[n - 1] = 61 THEN 2 ELSE 1) ELSE 0
      Alphabet == (65..90) \cup (97..122) \cup (48..57) \cup {43, 47}
  IN /\ (n - pad) % 4 # 1
     /\ \A k \in 1..(n - pad) : t[k] \in Alphabet

\* C14: decodePdf fails with NoHiddenData when the Subject is absent or has
\* no marker prefix, and with MalformedEncoding when the rest is not
\* base64; both precede any decryption.
C14_PdfReadErrors ==
  (mode = "pdf" /\ res.op = "decode") =>
    /\ ~HasMarker(carrier)
         => (~res.ok /\ res.err = "NoHiddenData" /\ ~res.derived)
    /\ (HasMarker(carrier) /\ ~Base64Decodable(AfterMarker(carrier)))
         => (~res.ok /\ res.err = "MalformedEncoding" /\ ~res.derived)
    /\ (HasMarker(carrier) /\ Base64Decodable(AfterMarker(carrier)))
         => res.err \notin {"NoHiddenData", "MalformedEncoding"}

C14_Witness ==
  /\ mode = "pdf" /\ res.op = "decode" /\ carrier = Given(Flag \o <<33, 33, 33>>)
  /\ Truthy(res.pw) /\ res.err = "MalformedEncoding"

\* The slot a byte of the carrier holds (0-based), or -1 when the byte is
\* an alpha byte or lies outside the data chunk.
SlotIndexOfByte(i) ==
  IF mode = "image"
  THEN IF (i - 1) % 4 = 3 THEN -1 ELSE 3 * ((i - 1) \div 4) + ((i - 1) % 4)
  ELSE LET chunk == FindDataChunk(input, RiffHeaderLength)
       IN IF i > chunk.start /\ i <= chunk.start + chunk.size
          THEN i - chunk.start - 1 ELSE -1

\* C15: corrupt of an encoded image or audio artifact changes the
\* least-significant bit of exactly one slot, a slot of the body region,
\* and leaves the 32 header slots as they were.
C15_CorruptFlipsOneBodyBit ==
  (IsLsbMode /\ res.op = "corrupt" /\ res.src = "encoded" /\ res.ok) =>
    LET changed == {i \in 1..Len(carrier) : carrier[i] # buffer[i]}
    IN /\ Len(carrier) = Len(buffer)
       /\ Cardinality(changed) = 1
       /\ \A i \in changed :
            /\ carrier[i] \div 2 = buffer[i] \div 2
            /\ SlotIndexOfByte(i) >= 32
            /\ SlotIndexOfByte(i) < Len(frame)

\* C16: parsing the text encryptMessage produced gives back the salt, the
\* nonce and the ciphertext with its tag, as arrays of values in 0..255.
C16_EnvelopeTextRoundTrip ==
  (mode = "envelope" /\ res.op = "encode") =>
    \A salt \in RandomBytes(SALT_LENGTH), iv \in RandomBytes(IV_LENGTH) :
      carrier = encryptMessage(message, password[1], salt, iv) =>
        LET bundle == JSONparse(carrier)
            aesKey == deriveKey(getPasswordKey(password[1]), salt)
            d == AesGcmEncrypt(aesKey, iv, TextEncode(message))
            Field(name) == Property(bundle, name)
        IN /\ bundle.ok /\ bundle.isObj
           /\ Field(<<115>>).t = "array" /\ Field(<<115>>).a = salt
           /\ Field(<<105, 118>>).t = "array" /\ Field(<<105, 118>>).a = iv
           /\ Field(<<100>>).t = "array" /\ Field(<<100>>).a = d
           /\ Len(salt) = 16 /\ Len(iv) = 12
           /\ \A k \in 1..Len(d) : d[k] \in 0..255

C16_Witness ==
  /\ mode = "envelope" /\ res.op = "encode"
  /\ message = <<233>>
  /\ Property(JSONparse(carrier), <<100>>).t = "array"
  /\ Len(Property(JSONparse(carrier), <<100>>).a) = 2 + TAG_LENGTH

\* The number of body bits the accepted decode read.
BitsRead ==
  IF mode = "image" THEN Len(decodeImageBits(carrier).binary)
  ELSE Len(decodeAudioBits(carrier, FindDataChunk(carrier, RiffHeaderLength)).binary)

\* C19: a decode that accepts the header reads exactly declaredLength
\* further bits, each from a slot the carrier has, and returns
\* declaredLength / 16 characters.
C19_ReadsDeclaredLength ==
  (IsLsbMode /\ res.op = "decode"
     /\ res.err \notin {"NoHeaderFound", "InvalidWav", "RangeError"}) =>
    /\ BitsRead = DeclaredLength
    /\ 32 + DeclaredLength <= SlotsAvailable
    /\ ~Truthy(res.pw) => (res.ok /\ 16 * Len(res.text) = DeclaredLength)

\* What corruptPdf does to a Subject.
PdfCorruption(before, after) ==
  IF HasMarker(before) /\ Len(AfterMarker(before)) > 10
  THEN LET n == Len(AfterMarker(before))
           at == 15 + (n \div 2) + 1
       IN /\ after # Undefined /\ Len(after[1]) = Len(before[1])
          /\ \A k \in 1..Len(before[1]) : k # at => after[1][k] = before[1][k]
          /\ after[1][at] = (IF before[1][at] = 65 THEN 66 ELSE 65)
          /\ after[1][at] # before[1][at]
  ELSE after = before

\* C20: corruptPdf replaces the character at the middle of a base64 text of
\* more than 10 characters by 'B' if it was 'A' and by 'A' otherwise, and
\* keeps everything else; a shorter text or a Subject without the marker
\* is left as it was.
C20_PdfMidpointReplace == [][CorruptPdf => PdfCorruption(carrier, carrier')]_vars

C20_Witness ==
  /\ mode = "pdf" /\ res.op = "corrupt" /\ res.src = "start"
  /\ input = Given(Flag \o [k \in 1..12 |-> 65]) /\ carrier # input

\* C17: every encryptMessage call takes as its salt and iv two outputs the
\* generator made during that call: no output taken by an earlier call is
\* taken again, and the envelope carries the outputs of its own call.
C17_FreshSaltAndIv ==
  /\ Len(generated) = 2 * Len(used)
  /\ \A k \in 1..Len(used) :
       /\ used[k].salt = 2 * k - 1 /\ used[k].iv = 2 * k
       /\ Len(generated[used[k].salt]) = 16 /\ Len(generated[used[k].iv]) = 12
       /\ \A j \in 1..(k - 1) :
            {used[j].salt, used[j].iv} \cap {used[k].salt, used[k].iv} = {}
  /\ (mode = "envelope" /\ res.op = "encode") =>
       LET bundle == JSONparse(carrier)
           last == used[Len(used)]
       IN /\ Property(bundle, <<115>>).a = generated[last.salt]
          /\ Property(bundle, <<105, 118>>).a = generated[last.iv]

C17_Witness ==
  /\ mode = "envelope" /\ res.op = "encode" /\ Len(used) = 2
  /\ message = <<65>> /\ generated[1] # generated[3] /\ generated[2] # generated[4]

\* The outcome of call c when it runs alone on the File.
AloneOutcome(c) ==
  CASE calls[c].op = "encode" ->
         BlobOutcome(EncodeCarrier(input, calls[c].message, calls[c].password,
                                   calls[c].salt, calls[c].iv))
    [] calls[c].op = "decode" -> TextOutcome(DecodeCarrier(input, calls[c].password))
    [] OTHER -> BlobOutcome(CorruptCarrier(input))

\* C18: calls interleaved at their awaits, on the same File, end as they
\* end when run alone: the File's bytes stay, no two calls hold the same
\* buffer, and no call holds the File's storage.
C18_ConcurrentCallsIndependent ==
  /\ [](pc = "concurrent" =>
         /\ heap[0] = input
         /\ \A c \in 1..NumCalls :
              calls[c].pc # "load" =>
                /\ calls[c].buf # 0
                /\ \A d \in 1..NumCalls : d # c /\ calls[d].pc # "load"
                     => calls[d].buf # calls[c].buf)
  /\ [][\A c \in 1..NumCalls :
          (pc = "concurrent" /\ calls[c].pc # "done" /\ calls'[c].pc = "done")
            => calls'[c].out = AloneOutcome(c)]_vars

C18_Witness ==
  /\ pc = "concurrent" /\ mode = "audio" /\ input = Wav(BigSamples, 16)
  /\ calls[1].op = "encode" /\ Truthy(calls[1].password)
  /\ calls[2].op = "encode" /\ ~Truthy(calls[2].password)
  /\ calls[1].pc = "encrypt" /\ calls[2].pc = "done" /\ calls[2].out.ok
  /\ heap[2] # input

\* C21: the chunk walk ends on every stream, whatever lengths its chunks
\* declare: every iteration that goes on to another leaves the offset
\* larger, and the walk reaches the data chunk, the end of the stream or an
\* error, the one the three functions end with.
C21_ChunkScanTerminates ==
  /\ [][(pc = "scan" /\ pc' = "scan") => offset' > offset]_vars
  /\ <>(pc \in {"found", "ended", "error"})
  /\ [](pc \in {"found", "ended", "error"} =>
          LET chunk == FindDataChunk(input, RiffHeaderLength)
          IN CASE pc = "found" -> chunk.found /\ chunk.start = offset
               [] pc = "ended" -> ~chunk.found /\ chunk.err = "InvalidWav"
               [] pc = "error" -> ~chunk.found /\ chunk.err = "RangeError")

\* A walk that passed a chunk of declared length 0 and one that declares
\* more than the stream holds, and ended.
C21_Witness ==
  /\ pc = "ended" /\ offset > Len(input)
  /\ Len(input) = RiffHeaderLength + 8 + 8 + 2
  /\ SubSeq(input, 17, 20) = <<0, 0, 0, 0>>
  /\ SubSeq(input, 25, 28) = <<200, 0, 0, 0>>

\* C22: a result that is shown was set by an operation started on the file
\* and in the mode that are selected now: after a purge or a change of mode
\* no operation started before it sets the result.
C22_ResultBelongsToSelection ==
  (pc = "ui" /\ result # Undefined) => result[1].of = <<file, mode>>

\* C23: at most one encode, decode or corruption is in flight, and
\* isProcessing is true exactly while one is.
C23_OneOperationInFlight ==
  pc = "ui" => /\ Len(tasks) <= 1
               /\ processing.isProcessing <=> Len(tasks) = 1

\* The envelope text the encode call of the session embedded.
EmbeddedEnvelope ==
  encryptMessage(message, password[1], generated[used[1].salt], generated[used[1].iv])

\* C24: a carrier encoded with a password and decoded without one gives the
\* envelope text, not the message, and no decryption is tried; a carrier
\* encoded without a password and decoded with one fails, and not with the
\* Integrity error.
C24_PasswordMismatchOutcomes ==
  (IsCarrierMode /\ DecodedFrom("encoded")) =>
    /\ (Truthy(password) /\ ~Truthy(res.pw)) =>
         /\ res.ok /\ ~res.derived
         /\ res.text = EmbeddedEnvelope /\ res.text # message
         /\ WellFormedEnvelope(res.text)
    /\ (~Truthy(password) /\ Truthy(res.pw)) =>
         (~res.ok /\ res.err # "Integrity")

\* A password that is a non-empty string.
NonEmptyPassword(p) == p # Undefined /\ p[1] # <<>>

\* What an encode call with no password leaves: the written buffer for an
\* image or a WAV stream, the Subject for a PDF.
EncodedWithoutPassword ==
  CASE mode = "image" -> encodeImage(input, message, Undefined, <<>>, <<>>).data
    [] mode = "audio" -> encodeAudio(input, message, Undefined, <<>>, <<>>).data
    [] mode = "pdf" -> encodePdf(input, message, Undefined, <<>>, <<>>).out

\* What a decode call with no password gives on the current carrier.
DecodedWithoutPassword ==
  CASE mode = "image" -> decodeImage(carrier, Undefined)
    [] mode = "audio" -> decodeAudio(carrier, Undefined)
    [] mode = "pdf" -> decodePdf(carrier, Undefined)

\* C25: encode stores the envelope exactly when its password is a non-empty
\* string; with the empty string it draws no salt and leaves what encode
\* with no password leaves, the message itself; and decode with the empty
\* string derives no key and gives what decode with no password gives.
C25_EncryptedIffNonEmptyPassword ==
  IsCarrierMode =>
    /\ (res.op = "encode" /\ res.ok) =>
         IF NonEmptyPassword(password)
         THEN /\ Len(used) = 1
              /\ \E envelope \in {EmbeddedEnvelope} :
                   /\ IsLsbMode => (payload = envelope /\ payload # message)
                   /\ mode = "pdf" => carrier = Given(Flag \o btoa(envelope).text)
         ELSE /\ generated = <<>>
              /\ \E plain \in {EncodedWithoutPassword} :
                   /\ IsLsbMode => (payload = message /\ buffer = plain)
                   /\ carrier = plain
    /\ (res.op = "decode" /\ res.pw = Given(<<>>)) =>
         /\ ~res.derived /\ ~res.tagChecked
         /\ \E d \in {DecodedWithoutPassword} :
              res.ok = d.ok /\ res.err = d.err /\ res.text = d.text

\* "A" was encoded with the empty string as password and decoded with it.
C25_Witness ==
  /\ IsCarrierMode /\ password = Given(<<>>) /\ message = <<65>>
  /\ DecodedFrom("encoded") /\ res.pw = Given(<<>>)
  /\ res.ok /\ res.text = message
====
